---- MODULE Spec2Model ----
(***************************************************************************)
(* A model of the execution kernel of claudecraft / specflow:              *)
(*   - AgentPool        (orchestration/agent_pool.py)                      *)
(*   - RalphLoop        (orchestration/ralph.py)                           *)
(*   - ExecutionPipeline.execute_task (orchestration/execution.py)         *)
(*   - cmd_execute      (cli.py) and MergeOrchestrator (merge.py)          *)
(*   - WorktreeManager  (orchestration/worktree.py)                        *)
(*   - PromiseVerifier._verify_multi_stage (orchestration/ralph.py)        *)
(* The specifications share the module: SpecPool drives the pool's public  *)
(* methods, SpecNotify its status callbacks, SpecRalph the RalphLoop API,  *)
(* SpecRalphLifecycle the API's refusals on an inactive loop, Spec runs    *)
(* execute_task for one task, stage by stage and agent invocation by       *)
(* agent invocation, SpecBatch runs cmd_execute over a store of tasks,     *)
(* SpecExecute follows cmd_execute to its exit code, SpecMerge and         *)
(* SpecMergeConcurrent run merge_task, SpecWorktree creates and removes    *)
(* worktrees, and SpecVerify applies the multi-stage verifier.             *)
(***************************************************************************)
EXTENDS Integers, Sequences, FiniteSets, TLC

\* ------------------------------------------------------------------ bounds
MaxAgents == 2
MaxQueue == 2
\* the largest max_iterations a Ralph loop is started with
MaxRalphMax == 3
\* SpecRalph: the most increment() calls made on one loop
MaxIncrements == 3
\* SpecRalph: the most verification records one loop collects
MaxHistory == 2
\* SpecMerge: the most merge commits made on trunk
MaxMerges == 2
\* SpecNotify: the most status callbacks registered with the pool
MaxCallbacks == 2
\* SpecExecute: the most ready tasks one cmd_execute is handed
MaxTasks == 3
\* SpecVerify: the most stages of a multi_stage configuration
MaxStages == 2

\* ------------------------------------------------------------- AgentPool
VARIABLES
    max_agents,   \* AgentPool.max_agents
    slots,        \* AgentPool.slots: a list of AgentSlot
    task_queue,   \* AgentPool.task_queue: a list of Task (by id)
    pool_ret,     \* what the last pool method returned
    last_event,   \* the last (slot_id, task_id, status) handed to _notify_status
    status_callbacks, \* AgentPool._status_callbacks: how many are registered
    notified,     \* history: the callback calls of the last pool method
    pending       \* history: the queued tasks not yet dequeued, oldest first

poolVars == <<max_agents, slots, task_queue, pool_ret, last_event,
              status_callbacks, notified, pending>>

\* ------------------------------------------------------------- RalphLoop
VARIABLES
    ralph_config, \* RalphLoopConfig: enabled, max_iterations, per-agent override
    ralph,        \* RalphLoop.state (active = FALSE models state is None)
    ralph_ret,    \* what the last RalphLoop method returned or raised
    ralph_in      \* the arguments of the last should_continue call

ralphVars == <<ralph_config, ralph, ralph_ret, ralph_in>>

\* ------------------------------------------- ExecutionPipeline.execute_task
VARIABLES
    pc,               \* where execute_task stands
    ralph_enabled,    \* execute_task's local ralph_enabled
    has_spec,         \* task.completion_spec is set
    stage,            \* index into self.pipeline of the current stage
    total_iterations, \* execute_task's local total_iterations
    iteration,        \* _execute_stage_traditional's local iteration
    task,             \* the Task object execute_task mutates
    db_task,          \* the task row the Store holds (db.update_task)
    agents,           \* agent rows the Store holds for the task
    result,           \* the ExecutionResult of the current stage
    ret,              \* what execute_task returned
    last_log,         \* the last entry db.log_execution appended
    last_cli,         \* what the stage's last agent invocation reported
    last_out,         \* the legacy markers in that invocation's output
    mode,             \* how the current stage runs: ralph, fallback, traditional
    \* history of the current run, kept for the properties
    reg_calls, dereg_calls, calls, run_calls, mem_calls, status_trace, started,
    ralph_n,          \* the max_iterations a Ralph loop of the stage is due
    promised          \* some output of the stage carried a <promise> tag

pipeVars == <<pc, ralph_enabled, has_spec, stage, total_iterations,
              iteration, task, db_task, agents, result, ret, last_log,
              last_cli, last_out, mode,
              reg_calls, dereg_calls, calls, run_calls, mem_calls,
              status_trace, started, ralph_n, promised>>

\* ------------------------------------------------ cmd_execute (batch run)
VARIABLES
    store,        \* Store: the task rows, by task id
    agent_rows,   \* Store: the number of agent rows, by task id
    worktrees,    \* WorktreeManager: the task ids with a worktree on disk
    inst,         \* the locals of each running cmd_execute / execute_task
    succeeded,    \* history: the stages that reported success, by task id
    restarted     \* history: <<task, stage>> invoked again after a success

batchVars == <<store, agent_rows, worktrees, inst, succeeded, restarted>>

\* ------------------------------------------------------ MergeOrchestrator
VARIABLES
    repo,         \* the trunk repository: merge state, working copy, commits
    worker        \* the locals of each merge_task call

mergeVars == <<repo, worker>>

\* ------------------------- cmd_execute's exit code, worktrees, multi-stage
VARIABLES
    cmd,          \* the locals of a cmd_execute call, for its exit code
    wt,           \* per task: its worktree directory, registration, branch
    wt_ret,       \* the last WorktreeManager call and how it ended
    ms_in,        \* the criteria config handed to _verify_multi_stage
    ms_ret        \* what _verify_multi_stage returned

extraVars == <<cmd, wt, wt_ret, ms_in, ms_ret>>

vars == <<poolVars, ralphVars, pipeVars, batchVars, mergeVars, extraVars>>

\* what the pool's methods leave alone, what the RalphLoop's do, and what
\* execute_task leaves alone besides the RalphLoop
nonPoolVars == <<ralphVars, pipeVars, batchVars, mergeVars, extraVars>>
nonRalphVars == <<poolVars, pipeVars, batchVars, mergeVars, extraVars>>
restVars == <<poolVars, batchVars, mergeVars, extraVars>>

None == "none"

\* an integer option that is not set (Python's None for an int | None)
Unset == 0 - 1

TaskIds == {"T1", "T2", "T3"}

\* Task.priority of the tasks handed to the pool (T2 and T3 tie).
Priority == [t \in TaskIds |-> IF t = "T1" THEN 1 ELSE 2]

\* The agent types the pool is driven with (a subset of the AgentType enum).
AgentTypes == {"coder", "reviewer"}

\* AgentSlot(slot_id=i): idle, no task.
AgentSlot(i) ==
    [slot_id |-> i, task_id |-> None, agent_type |-> None, status |-> "idle"]

\* AgentSlot.is_available
is_available(slot) ==
    slot.status = "idle"

\* AgentSlot.assign
assign(slot, task_id, agent_type) ==
    [slot EXCEPT !.task_id = task_id, !.agent_type = agent_type,
                 !.status = "running"]

\* AgentSlot.release
release(slot) ==
    [slot EXCEPT !.task_id = None, !.agent_type = None, !.status = "idle"]

\* AgentPool.get_available_slot: index of the first idle slot, 0 for None.
get_available_slot ==
    IF \E i \in DOMAIN slots : is_available(slots[i])
    THEN CHOOSE i \in DOMAIN slots :
            /\ is_available(slots[i])
            /\ \A j \in DOMAIN slots : j < i => ~is_available(slots[j])
    ELSE 0

\* AgentPool.get_slot_by_task: index of the first slot holding task_id, 0 for None.
get_slot_by_task(task_id) ==
    IF \E i \in DOMAIN slots : slots[i].task_id = task_id
    THEN CHOOSE i \in DOMAIN slots :
            /\ slots[i].task_id = task_id
            /\ \A j \in DOMAIN slots : j < i => slots[j].task_id # task_id
    ELSE 0

\* AgentPool.get_active_count
get_active_count ==
    Cardinality({i \in DOMAIN slots : ~is_available(slots[i])})

\* a pool method that did not reach _notify_status
NotNotified ==
    [active |-> FALSE, calls |-> <<>>, raised |-> FALSE, propagated |-> FALSE]

\* A plausible bug: the callbacks are called without the try/except, so
\* the first one that raises ends the loop and the exception leaves
\* _notify_status.
notify_status_unguarded(n, R) ==
    LET first == IF R = {} THEN n
                 ELSE CHOOSE k \in R : \A j \in R : k <= j
    IN  [active |-> TRUE, calls |-> [k \in 1..first |-> k],
         raised |-> R # {}, propagated |-> R # {}]

\* AgentPool._notify_status with n registered callbacks of which those in R
\* raise an Exception: every callback is called in registration order, each
\* inside its own try/except, and nothing propagates.
notify_status(n, R) ==
    [active |-> TRUE, calls |-> [k \in 1..n |-> k],
     raised |-> R # {}, propagated |-> FALSE]

\* AgentPool.register_status_callback (the model stops at MaxCallbacks)
register_status_callback ==
    /\ status_callbacks < MaxCallbacks
    /\ status_callbacks' = status_callbacks + 1
    /\ pool_ret' = <<"register_status_callback", None>>
    /\ notified' = NotNotified
    /\ UNCHANGED <<max_agents, slots, task_queue, last_event, pending,
                   nonPoolVars>>

\* A plausible bug: a full pool grows by one slot instead of returning None.
assign_task_grow(t, a) ==
    LET i == get_available_slot IN
    /\ IF i # 0
       THEN /\ slots' = [slots EXCEPT ![i] = assign(slots[i], t, a)]
            /\ last_event' = <<slots[i].slot_id, t, "assigned">>
            /\ pool_ret' = <<"assign_task", slots[i].slot_id>>
       ELSE /\ slots' = Append(slots, assign(AgentSlot(Len(slots) + 1), t, a))
            /\ last_event' = <<Len(slots) + 1, t, "assigned">>
            /\ pool_ret' = <<"assign_task", Len(slots) + 1>>
    /\ notified' = notify_status(status_callbacks, {})
    /\ UNCHANGED <<max_agents, task_queue, status_callbacks, pending,
                   nonPoolVars>>

\* A plausible bug: a full pool queues the task it cannot place.
assign_task_queue_when_full(t, a) ==
    LET i == get_available_slot IN
    /\ IF i # 0
       THEN /\ slots' = [slots EXCEPT ![i] = assign(slots[i], t, a)]
            /\ last_event' = <<slots[i].slot_id, t, "assigned">>
            /\ pool_ret' = <<"assign_task", slots[i].slot_id>>
            /\ notified' = notify_status(status_callbacks, {})
            /\ UNCHANGED task_queue
       ELSE /\ pool_ret' = <<"assign_task", 0>>
            /\ task_queue' = Append(task_queue, t)
            /\ notified' = NotNotified
            /\ UNCHANGED <<slots, last_event>>
    /\ UNCHANGED <<max_agents, status_callbacks, pending, nonPoolVars>>

\* AgentPool.assign_task: the first idle slot takes the task and the
\* callbacks are told; None when full.  An exception leaving _notify_status
\* would end the call after the slot was assigned.
assign_task(t, a) ==
    LET i == get_available_slot IN
    /\ IF i # 0
       THEN \E R \in SUBSET (1..status_callbacks) :
                LET n == notify_status(status_callbacks, R) IN
                /\ slots' = [slots EXCEPT ![i] = assign(slots[i], t, a)]
                /\ last_event' = <<slots[i].slot_id, t, "assigned">>
                /\ notified' = n
                /\ pool_ret' = <<"assign_task",
                                 IF n.propagated THEN 0 ELSE slots[i].slot_id>>
       ELSE /\ pool_ret' = <<"assign_task", 0>>
            /\ notified' = NotNotified
            /\ UNCHANGED <<slots, last_event>>
    /\ UNCHANGED <<max_agents, task_queue, status_callbacks, pending,
                   nonPoolVars>>

\* lines 91-94 and 98-101: the slot holding the task, if any, is reported
\* to the callbacks with the event and then released.  An exception leaving
\* _notify_status would end the call before the release.
release_task(t, event) ==
    LET i == get_slot_by_task(t) IN
    /\ IF i # 0
       THEN \E R \in SUBSET (1..status_callbacks) :
                LET n == notify_status(status_callbacks, R) IN
                /\ last_event' = <<slots[i].slot_id, t, event>>
                /\ notified' = n
                /\ slots' = IF n.propagated THEN slots
                            ELSE [slots EXCEPT ![i] = release(slots[i])]
       ELSE /\ notified' = NotNotified
            /\ UNCHANGED <<slots, last_event>>
    /\ UNCHANGED <<max_agents, task_queue, status_callbacks, pending,
                   nonPoolVars>>

\* AgentPool.complete_task
complete_task(t) ==
    /\ release_task(t, "completed")
    /\ pool_ret' = <<"complete_task", None>>

\* AgentPool.fail_task
fail_task(t) ==
    /\ release_task(t, "failed")
    /\ pool_ret' = <<"fail_task", None>>

\* AgentPool.queue_task (the model stops queueing at MaxQueue entries)
queue_task(t) ==
    /\ Len(task_queue) < MaxQueue
    /\ task_queue' = Append(task_queue, t)
    /\ pending' = Append(pending, t)
    /\ pool_ret' = <<"queue_task", None>>
    /\ notified' = NotNotified
    /\ UNCHANGED <<max_agents, slots, last_event, status_callbacks,
                   nonPoolVars>>

\* A plausible bug: a sort that puts the later of two equal priorities first.
RECURSIVE InsertByPriority_unstable(_, _)
InsertByPriority_unstable(t, q) ==
    IF q = <<>> THEN <<t>>
    ELSE IF Priority[Head(q)] > Priority[t]
         THEN <<Head(q)>> \o InsertByPriority_unstable(t, Tail(q))
         ELSE <<t>> \o q

\* list.sort(key=priority, reverse=True): a stable sort, highest priority first.
RECURSIVE InsertByPriority(_, _)
InsertByPriority(t, q) ==
    IF q = <<>> THEN <<t>>
    ELSE IF Priority[Head(q)] >= Priority[t]
         THEN <<Head(q)>> \o InsertByPriority(t, Tail(q))
         ELSE <<t>> \o q

RECURSIVE SortByPriority(_)
SortByPriority(q) ==
    IF q = <<>> THEN <<>>
    ELSE InsertByPriority(q[Len(q)], SortByPriority(SubSeq(q, 1, Len(q) - 1)))

\* the sequence q without its first entry equal to t
RECURSIVE RemoveFirst(_, _)
RemoveFirst(q, t) ==
    IF q = <<>> THEN <<>>
    ELSE IF Head(q) = t THEN Tail(q)
         ELSE <<Head(q)>> \o RemoveFirst(Tail(q), t)

\* AgentPool.dequeue_task: sorts the queue in place and pops its head.
dequeue_task ==
    /\ IF task_queue = <<>>
       THEN /\ pool_ret' = <<"dequeue_task", None>>
            /\ UNCHANGED <<task_queue, pending>>
       ELSE /\ pool_ret' = <<"dequeue_task", Head(SortByPriority(task_queue))>>
            /\ task_queue' = Tail(SortByPriority(task_queue))
            /\ pending' = RemoveFirst(pending, Head(SortByPriority(task_queue)))
    /\ notified' = NotNotified
    /\ UNCHANGED <<max_agents, slots, last_event, status_callbacks,
                   nonPoolVars>>

\* AgentPool.__init__(max_agents)
InitPool ==
    /\ max_agents \in 0..MaxAgents
    /\ slots = [i \in 1..max_agents |-> AgentSlot(i)]
    /\ task_queue = <<>>
    /\ pool_ret = <<"init", None>>
    /\ last_event = <<>>
    /\ status_callbacks = 0
    /\ notified = NotNotified
    /\ pending = <<>>

NextPool ==
    \/ \E t \in TaskIds, a \in AgentTypes : assign_task(t, a)
    \/ \E t \in TaskIds : complete_task(t)
    \/ \E t \in TaskIds : fail_task(t)
    \/ \E t \in TaskIds : queue_task(t)
    \/ dequeue_task

\* The methods that report to the status callbacks, and the registration
\* of callbacks.
NextNotify ==
    \/ \E t \in TaskIds, a \in AgentTypes : assign_task(t, a)
    \/ \E t \in TaskIds : complete_task(t)
    \/ \E t \in TaskIds : fail_task(t)
    \/ register_status_callback

\* ------------------------------------------------------------- RalphLoop

\* What an agent's output text carries, as far as the code reads it:
\*   tag      the <promise>...</promise> tag: "none" (no tag), "blank" (a tag
\*            holding only whitespace), "match" (the criteria's promise),
\*            "other" (any other text)
\*   mentions the criteria's promise text occurs somewhere in the output
\*   succ, fail, long_clean   the legacy markers _check_stage_success reads
Outputs ==
    {o \in [tag : {"none", "blank", "match", "other"}, mentions : BOOLEAN,
            succ : BOOLEAN, fail : BOOLEAN, long_clean : BOOLEAN] :
        o.tag = "match" => o.mentions}

\* CompletionCriteria.verification_method; external stands for the methods
\* whose verdict comes from outside the output text.
Methods == {"string_match", "external"}

\* PromiseVerifier.extract_promise: the trimmed interior of the first tag
\* ("" for a blank one), None when the pattern does not match.
extract_promise(out) ==
    CASE out.tag = "none"  -> None
      [] out.tag = "blank" -> ""
      [] out.tag = "match" -> "PROMISE"
      [] out.tag = "other" -> "OTHER"

\* Python's `not promise`: None and the empty string are falsy.
not_promise(p) ==
    p = None \/ p = ""

\* PromiseVerifier._verify_string_match: the criteria's promise occurs in
\* the output, case-insensitively.
verify_string_match(out) ==
    out.mentions

\* PromiseVerifier.verify: dispatch on the method; ext_ok is the verdict of
\* the external command.
verify(method, out, ext_ok) ==
    IF method = "string_match" THEN verify_string_match(out) ELSE ext_ok

\* RalphLoopConfig.get_max_iterations_for_agent
get_max_iterations_for_agent(cfg) ==
    IF cfg.agent_max # Unset THEN cfg.agent_max ELSE cfg.max_iterations

\* A plausible bug: the limit is one iteration late.
is_at_limit_late(st) ==
    st.iteration > st.max_iterations

\* RalphLoopState.is_at_limit
is_at_limit(st) ==
    st.iteration >= st.max_iterations

\* RalphLoopState.last_verification (a record with verified = FALSE stands
\* for the None of an empty history, which finish() reads as not verified)
last_verification(st) ==
    IF st.results # <<>> THEN st.results[Len(st.results)]
    ELSE [iteration |-> 0, promise_found |-> FALSE, verified |-> FALSE]

\* RalphLoopState.add_verification_result
add_verification_result(st, promise_found, verified) ==
    [st EXCEPT !.results = Append(@, [iteration |-> st.iteration,
                                      promise_found |-> promise_found,
                                      verified |-> verified])]

NoRalphState ==
    [active |-> FALSE, iteration |-> 0, max_iterations |-> 0,
     method |-> "string_match", results |-> <<>>]

NoRalphIn ==
    [tag |-> None, passes |-> FALSE, iteration |-> 0, max_iterations |-> 0]

RalphReturn(op, cont, reason, err) ==
    [op |-> op, cont |-> cont, reason |-> reason, err |-> err]

\* RalphLoop.start: the state after start(task, agent_type, criteria), where
\* criteria = [method, max_iterations (None when unset)].
ralph_started(cfg, criteria) ==
    [active |-> TRUE, iteration |-> 0,
     max_iterations |-> IF criteria.max_iterations # Unset
                        THEN criteria.max_iterations
                        ELSE get_max_iterations_for_agent(cfg),
     method |-> criteria.method, results |-> <<>>]

\* RalphLoop.increment on an active loop.
ralph_incremented(st) ==
    [st EXCEPT !.iteration = @ + 1]

\* A plausible bug: the iteration limit is consulted before the verdict, so
\* a verified promise below the limit does not stop the loop.
should_continue_limit_first(st, out, ext_ok) ==
    LET promise == extract_promise(out)
        passed  == verify(st.method, out, ext_ok)
    IN  IF not_promise(promise)
        THEN IF is_at_limit(st)
             THEN <<add_verification_result(st, FALSE, FALSE), FALSE, "max_no_promise">>
             ELSE <<add_verification_result(st, FALSE, FALSE), TRUE, "no_promise">>
        ELSE IF ~is_at_limit(st)
             THEN <<add_verification_result(st, TRUE, passed), TRUE, "verification_failed">>
             ELSE IF passed
                  THEN <<add_verification_result(st, TRUE, TRUE), FALSE, "verified">>
                  ELSE <<add_verification_result(st, TRUE, FALSE), FALSE, "max_last">>

\* RalphLoop.should_continue on an active loop: <<state', continue, reason>>.
should_continue(st, out, ext_ok) ==
    LET promise == extract_promise(out)
        passed  == verify(st.method, out, ext_ok)
    IN  IF not_promise(promise)
        THEN IF is_at_limit(st)
             THEN <<add_verification_result(st, FALSE, FALSE), FALSE, "max_no_promise">>
             ELSE <<add_verification_result(st, FALSE, FALSE), TRUE, "no_promise">>
        ELSE IF passed
             THEN <<add_verification_result(st, TRUE, TRUE), FALSE, "verified">>
             ELSE IF is_at_limit(st)
                  THEN <<add_verification_result(st, TRUE, FALSE), FALSE, "max_last">>
                  ELSE <<add_verification_result(st, TRUE, FALSE), TRUE, "verification_failed">>

\* RalphLoop.finish on an active loop: [success, iterations].
ralph_finish(st) ==
    [success |-> last_verification(st).verified, iterations |-> st.iteration]

\* The max_iterations values a loop is started with, or Unset.
MaxChoices == {Unset} \cup 0..MaxRalphMax

Criteria == [method : Methods, max_iterations : MaxChoices]

\* --- the RalphLoop API, called directly

RalphStart(criteria) ==
    /\ IF ~ralph_config.enabled
       THEN /\ ralph_ret' = RalphReturn("start", FALSE, None, "ValueError")
            /\ UNCHANGED ralph
       ELSE /\ ralph' = ralph_started(ralph_config, criteria)
            /\ ralph_ret' = RalphReturn("start", FALSE, None, None)
    /\ UNCHANGED <<ralph_config, ralph_in, nonRalphVars>>

RalphIncrement ==
    /\ ralph.iteration < MaxIncrements
    /\ IF ~ralph.active
       THEN /\ ralph_ret' = RalphReturn("increment", FALSE, None, "RuntimeError")
            /\ UNCHANGED ralph
       ELSE /\ ralph' = ralph_incremented(ralph)
            /\ ralph_ret' = RalphReturn("increment", FALSE, None, None)
    /\ UNCHANGED <<ralph_config, ralph_in, nonRalphVars>>

RalphShouldContinue(out, ext_ok) ==
    /\ Len(ralph.results) < MaxHistory
    /\ IF ~ralph.active
       THEN /\ ralph_ret' = RalphReturn("should_continue", FALSE, None, "RuntimeError")
            /\ UNCHANGED <<ralph, ralph_in>>
       ELSE LET r == should_continue(ralph, out, ext_ok) IN
            /\ ralph' = r[1]
            /\ ralph_ret' = RalphReturn("should_continue", r[2], r[3], None)
            /\ ralph_in' = [tag |-> out.tag,
                            passes |-> verify(ralph.method, out, ext_ok),
                            iteration |-> ralph.iteration,
                            max_iterations |-> ralph.max_iterations]
    /\ UNCHANGED <<ralph_config, nonRalphVars>>

\* A plausible bug: finish reports the result but keeps the loop state.
RalphFinish_keeps_state ==
    /\ IF ~ralph.active
       THEN ralph_ret' = RalphReturn("finish", FALSE, None, "RuntimeError")
       ELSE ralph_ret' = RalphReturn("finish", ralph_finish(ralph).success,
                                     None, None)
    /\ UNCHANGED <<ralph, ralph_config, ralph_in, nonRalphVars>>

RalphFinish ==
    /\ IF ~ralph.active
       THEN /\ ralph_ret' = RalphReturn("finish", FALSE, None, "RuntimeError")
            /\ UNCHANGED ralph
       ELSE /\ ralph_ret' = RalphReturn("finish", ralph_finish(ralph).success,
                                        None, None)
            /\ ralph' = NoRalphState
    /\ UNCHANGED <<ralph_config, ralph_in, nonRalphVars>>

\* RalphLoop.build_prompt_section: formats the loop's state into prompt
\* text and changes nothing.
RalphBuildPromptSection ==
    /\ ralph_ret' = RalphReturn("build_prompt_section", FALSE, None,
                                IF ~ralph.active THEN "RuntimeError" ELSE None)
    /\ UNCHANGED <<ralph, ralph_config, ralph_in, nonRalphVars>>

\* The configurations a loop is built with: the global max_iterations and
\* the per-agent override of it (Unset when the agent has none).
RalphConfigs ==
    [enabled : BOOLEAN, max_iterations : 1..MaxRalphMax,
     agent_max : {Unset, MaxRalphMax - 1}]

\* The configurations execute_task is run with: Ralph on or off; a loop's
\* max_iterations comes from the stage's criteria or, when they set none,
\* from this default.
PipelineConfigs ==
    {c \in RalphConfigs : c.max_iterations = MaxRalphMax /\ c.agent_max = Unset}

\* The outputs handed to should_continue, which reads no legacy marker.
RalphOutputs ==
    {o \in Outputs : ~o.succ /\ ~o.fail /\ ~o.long_clean}

\* RalphLoop.__init__(config)
InitRalph ==
    /\ ralph_config \in RalphConfigs
    /\ ralph = NoRalphState
    /\ ralph_ret = RalphReturn("init", FALSE, None, None)
    /\ ralph_in = NoRalphIn

InitRalphIdle ==
    /\ ralph_config = [enabled |-> TRUE, max_iterations |-> 1, agent_max |-> Unset]
    /\ ralph = NoRalphState
    /\ ralph_ret = RalphReturn("init", FALSE, None, None)
    /\ ralph_in = NoRalphIn

NextRalph ==
    \/ \E c \in Criteria : RalphStart(c)
    \/ RalphIncrement
    \/ \E out \in RalphOutputs, ext_ok \in BOOLEAN : RalphShouldContinue(out, ext_ok)
    \/ RalphFinish

\* The outputs that tell the loop's life cycle apart: no promise tag, or the
\* criteria's promise.
LifecycleOutputs ==
    {o \in RalphOutputs : o.tag \in {"none", "match"} /\ (o.mentions <=> o.tag = "match")}

\* Every operation of the RalphLoop API that is refused on an inactive loop,
\* in any order.
NextRalphLifecycle ==
    \/ \E c \in Criteria : RalphStart(c)
    \/ RalphIncrement
    \/ \E out \in LifecycleOutputs, ext_ok \in BOOLEAN : RalphShouldContinue(out, ext_ok)
    \/ RalphFinish
    \/ RalphBuildPromptSection

\* ------------------------------------------- ExecutionPipeline.execute_task

\* ExecutionPipeline.DEFAULT_PIPELINE
Pipeline ==
    << [name |-> "Implementation", agent_type |-> "coder",    max_iterations |-> 3],
       [name |-> "Code Review",    agent_type |-> "reviewer", max_iterations |-> 2],
       [name |-> "Testing",        agent_type |-> "tester",   max_iterations |-> 2],
       [name |-> "QA Validation",  agent_type |-> "qa",       max_iterations |-> 10] >>

\* ExecutionPipeline.max_total_iterations
max_total_iterations == 10

\* A plausible bug: QA gets a status of its own stage kind instead of reusing
\* reviewing.
get_stage_status_qa_testing(agent_type) ==
    CASE agent_type = "coder"    -> "implementing"
      [] agent_type = "reviewer" -> "reviewing"
      [] agent_type = "tester"   -> "testing"
      [] agent_type = "qa"       -> "testing"
      [] OTHER                   -> "implementing"

\* ExecutionPipeline._get_stage_status
get_stage_status(agent_type) ==
    CASE agent_type = "coder"    -> "implementing"
      [] agent_type = "reviewer" -> "reviewing"
      [] agent_type = "tester"   -> "testing"
      [] agent_type = "qa"       -> "reviewing"
      [] OTHER                   -> "implementing"

\* ExecutionPipeline._check_stage_success: a success marker wins, then a
\* failure marker loses, then a long output without "error" counts as success.
check_stage_success(out) ==
    IF out.succ THEN TRUE
    ELSE IF out.fail THEN FALSE
    ELSE out.long_clean

\* The legacy markers _check_stage_success looks for in an output: one of
\* its success indicators, one of its failure indicators.
legacy_markers(out) ==
    [succ |-> out.succ, fail |-> out.fail]

\* no output yet
NoMarkers ==
    [succ |-> FALSE, fail |-> FALSE]

\* ExecutionPipeline._execute_stage: the success of one agent invocation in
\* the traditional mode (the runner's exit status, else the legacy markers).
execute_stage_success(out, cli_ok) ==
    IF cli_ok THEN TRUE ELSE check_stage_success(out)

\* ExecutionPipeline._run_claude_headless: success is the runner's exit
\* status 0; a timeout, a missing binary, any other exception and a nonzero
\* exit all report an error.
run_claude_headless(cli_ok) ==
    IF cli_ok THEN "ok" ELSE "error"

NoMetadata ==
    [failure_stage |-> None, failure_reason |-> None, ralph_iterations |-> Unset]

NoResult ==
    [success |-> FALSE, iteration |-> 0, ralph_iterations |-> 0,
     ralph_verified |-> FALSE]

NoLog ==
    [stage |-> None, kind |-> None, success |-> FALSE]

\* Store.register_agent(task_id, ...): one more agent row for the task.
register_agent(rows) ==
    rows + 1

\* Store.deregister_agent(task_id): the task's agent rows are deleted.
deregister_agent(rows) ==
    rows - rows

\* Store.update_task(task): the row of the task becomes a copy of the object.
update_task(t) ==
    [status |-> t.status, iteration |-> t.iteration, metadata |-> t.metadata]

\* the persisted status, appended to the run's trace when it changes
Traced(trace, status) ==
    IF trace # <<>> /\ trace[Len(trace)] = status THEN trace
    ELSE Append(trace, status)

\* execute_task is called (lines 106-126): a fresh run for the stored task.
StartTask(use_ralph) ==
    /\ pc = "idle"
    /\ ralph_enabled' = IF use_ralph # None THEN use_ralph = "true"
                        ELSE ralph_config.enabled
    /\ task' = db_task
    /\ total_iterations' = 0
    /\ iteration' = 0
    /\ stage' = 1
    /\ result' = NoResult
    /\ ret' = None
    /\ mode' = None
    /\ last_cli' = None
    /\ last_out' = NoMarkers
    /\ reg_calls' = 0 /\ dereg_calls' = 0
    /\ calls' = 0 /\ run_calls' = 0 /\ mem_calls' = 0
    /\ status_trace' = <<>>
    /\ started' = <<>>
    /\ ralph_n' = 0 /\ promised' = FALSE
    /\ pc' = "stage_entry"
    /\ UNCHANGED <<has_spec, db_task, agents, last_log, restVars, ralphVars>>

\* lines 130-134: db.register_agent for the stage.
RegisterAgent ==
    /\ pc = "stage_entry"
    /\ agents' = register_agent(agents)
    /\ reg_calls' = reg_calls + 1
    /\ started' = Append(started, stage)
    /\ calls' = 0 /\ mem_calls' = 0
    /\ pc' = "registered"
    /\ UNCHANGED <<last_cli, last_out, ralph_enabled, has_spec, stage, total_iterations,
                   iteration, task, db_task, result, ret, last_log, mode,
                   dereg_calls, run_calls, status_trace, ralph_n, promised,
                   restVars, ralphVars>>

\* lines 137-138: the task takes the stage's status and is stored.
UpdateStatus ==
    /\ pc = "registered"
    /\ task' = [task EXCEPT !.status = get_stage_status(Pipeline[stage].agent_type)]
    /\ db_task' = update_task(task')
    /\ status_trace' = Traced(status_trace, task'.status)
    /\ pc' = "stage_body"
    /\ UNCHANGED <<last_cli, last_out, ralph_enabled, has_spec, stage, total_iterations,
                   iteration, agents, result, ret, last_log, mode, reg_calls,
                   dereg_calls, calls, run_calls, mem_calls, started,
                   ralph_n, promised, restVars, ralphVars>>

\* line 138 raises (a Store error): execute_task ends with the exception,
\* outside the try block, so the finally clause does not run.
UpdateStatusRaises ==
    /\ pc = "registered"
    /\ task' = [task EXCEPT !.status = get_stage_status(Pipeline[stage].agent_type)]
    /\ pc' = "raised"
    /\ UNCHANGED <<last_cli, last_out, ralph_enabled, has_spec, stage, total_iterations,
                   iteration, db_task, agents, result, ret, last_log, mode,
                   reg_calls, dereg_calls, calls, run_calls, mem_calls,
                   status_trace, started, ralph_n, promised, restVars,
                   ralphVars>>

\* ExecutionPipeline._get_completion_criteria: FALSE stands for the None it
\* returns when Ralph is disabled in the configuration.
has_completion_criteria ==
    ralph_config.enabled

\* lines 141-143, 158-162 and 723-744: the stage picks its mode.  A Ralph
\* stage starts its loop with the criteria of the task (or the defaults);
\* without criteria it falls back to one plain _execute_stage call.
BeginStage(criteria) ==
    /\ pc = "stage_body"
    /\ IF ralph_enabled /\ has_spec
       THEN IF ~has_completion_criteria
            THEN /\ mode' = "fallback"
                 /\ UNCHANGED <<ralph, ralph_ret>>
            ELSE /\ mode' = "ralph"
                 /\ ralph' = ralph_started(ralph_config, criteria)
                 /\ ralph_ret' = RalphReturn("start", FALSE, None, None)
       ELSE /\ mode' = "traditional"
            /\ UNCHANGED <<ralph, ralph_ret>>
    /\ iteration' = 0
    /\ last_cli' = None
    /\ last_out' = NoMarkers
    /\ ralph_in' = NoRalphIn
    /\ ralph_n' = ralph_started(ralph_config,
                                IF has_spec THEN criteria
                                ELSE [criteria EXCEPT !.max_iterations = Unset]
                               ).max_iterations
    /\ promised' = FALSE
    /\ pc' = "stage_loop"
    /\ UNCHANGED <<ralph_enabled, has_spec, stage, total_iterations,
                   task, db_task, agents, result, ret, last_log, reg_calls,
                   dereg_calls, calls, run_calls, mem_calls, status_trace,
                   started, restVars, ralph_config>>

\* lines 746-801: one pass of execute_stage_with_ralph's loop: increment, run
\* the agent, log the iteration, ask should_continue; on stop, finish the
\* loop and build the stage's result.
RalphIterate(out, cli_ok, ext_ok) ==
    /\ pc = "stage_loop" /\ mode = "ralph"
    /\ LET st == ralph_incremented(ralph)
           r  == should_continue(st, out, ext_ok)
           f  == ralph_finish(r[1])
       IN  /\ ralph_in' = [tag |-> out.tag,
                           passes |-> verify(st.method, out, ext_ok),
                           iteration |-> st.iteration,
                           max_iterations |-> st.max_iterations]
           /\ ralph_ret' = RalphReturn("should_continue", r[2], r[3], None)
           /\ last_log' = [stage |-> Pipeline[stage].name, kind |-> "ralph_iter",
                           success |-> cli_ok]
           /\ IF r[2]
              THEN /\ ralph' = r[1]
                   /\ UNCHANGED <<result, pc>>
              ELSE /\ ralph' = NoRalphState
                   /\ result' = [success |-> f.success,
                                 iteration |-> f.iterations,
                                 ralph_iterations |-> f.iterations,
                                 ralph_verified |-> f.success]
                   /\ pc' = "stage_done"
    /\ calls' = calls + 1
    /\ last_cli' = run_claude_headless(cli_ok)
    /\ last_out' = legacy_markers(out)
    /\ run_calls' = run_calls + 1
    /\ promised' = (promised \/ out.tag # None)
    /\ UNCHANGED <<ralph_enabled, has_spec, stage, total_iterations,
                   iteration, task, db_task, agents, ret, mode, reg_calls,
                   dereg_calls, mem_calls, status_trace, started, ralph_n,
                   restVars, ralph_config>>

\* lines 729-730: no criteria, so the stage is one _execute_stage call.
FallbackExecute(out, cli_ok) ==
    /\ pc = "stage_loop" /\ mode = "fallback"
    /\ result' = [success |-> execute_stage_success(out, cli_ok), iteration |-> 1,
                  ralph_iterations |-> 0, ralph_verified |-> FALSE]
    /\ calls' = calls + 1
    /\ last_cli' = run_claude_headless(cli_ok)
    /\ last_out' = legacy_markers(out)
    /\ run_calls' = run_calls + 1
    /\ mem_calls' = mem_calls + 1
    /\ promised' = (promised \/ out.tag # None)
    /\ pc' = "stage_done"
    /\ UNCHANGED <<ralph_enabled, has_spec, stage, total_iterations,
                   iteration, task, db_task, agents, ret, last_log, mode,
                   reg_calls, dereg_calls, status_trace, started, ralph_n,
                   restVars, ralphVars>>

\* lines 208-239: one pass of _execute_stage_traditional's loop.
TraditionalIterate(out, cli_ok) ==
    /\ pc = "stage_loop" /\ mode = "traditional"
    /\ iteration < Pipeline[stage].max_iterations
    /\ total_iterations < max_total_iterations
    /\ iteration' = iteration + 1
    /\ total_iterations' = total_iterations + 1
    /\ task' = [task EXCEPT !.iteration = total_iterations + 1]
    /\ db_task' = update_task(task')
    /\ last_log' = [stage |-> Pipeline[stage].name, kind |-> "traditional",
                    success |-> execute_stage_success(out, cli_ok)]
    /\ calls' = calls + 1
    /\ last_cli' = run_claude_headless(cli_ok)
    /\ last_out' = legacy_markers(out)
    /\ run_calls' = run_calls + 1
    /\ mem_calls' = mem_calls + 1
    /\ IF execute_stage_success(out, cli_ok)
       THEN /\ result' = [success |-> TRUE, iteration |-> total_iterations + 1,
                          ralph_iterations |-> 0, ralph_verified |-> FALSE]
            /\ pc' = "stage_done"
       ELSE UNCHANGED <<result, pc>>
    /\ promised' = (promised \/ out.tag # None)
    /\ UNCHANGED <<ralph_enabled, has_spec, stage, agents, ret, mode,
                   reg_calls, dereg_calls, status_trace, started, ralph_n,
                   restVars, ralphVars>>

\* lines 241-249: the loop condition fails, the stage returns a failure.
TraditionalExhausted ==
    /\ pc = "stage_loop" /\ mode = "traditional"
    /\ ~(/\ iteration < Pipeline[stage].max_iterations
         /\ total_iterations < max_total_iterations)
    /\ result' = [success |-> FALSE, iteration |-> total_iterations,
                  ralph_iterations |-> 0, ralph_verified |-> FALSE]
    /\ pc' = "stage_done"
    /\ UNCHANGED <<last_cli, last_out, ralph_enabled, has_spec, stage, total_iterations,
                   iteration, task, db_task, agents, ret, last_log, mode,
                   reg_calls, dereg_calls, calls, run_calls, mem_calls,
                   status_trace, started, ralph_n, promised, restVars,
                   ralphVars>>

\* An error is raised inside the try block (a Store write, a prompt file
\* read, the memory sink): the finally clause deregisters the agent and
\* execute_task ends with the exception.
StageRaises ==
    /\ pc \in {"stage_body", "stage_loop"}
    /\ agents' = deregister_agent(agents)
    /\ dereg_calls' = dereg_calls + 1
    /\ ralph' = NoRalphState
    /\ pc' = "raised"
    /\ UNCHANGED <<last_cli, last_out, ralph_enabled, has_spec, stage, total_iterations,
                   iteration, task, db_task, result, ret, last_log, mode,
                   reg_calls, calls, run_calls, mem_calls, status_trace,
                   started, ralph_n, promised, restVars, ralph_config,
                   ralph_ret, ralph_in>>

\* the task after lines 144-146 / 163: the stage's iterations are counted
task_after_stage ==
    IF mode = "traditional" THEN task
    ELSE [task EXCEPT !.iteration =
            total_iterations + (IF result.ralph_iterations # 0
                                THEN result.ralph_iterations ELSE 1)]

\* total_iterations after lines 144 / 163
total_after_stage ==
    IF mode = "traditional" THEN result.iteration
    ELSE total_iterations + (IF result.ralph_iterations # 0
                             THEN result.ralph_iterations ELSE 1)

\* A plausible bug: the failure is recorded but the status is not reset.
task_failed_keeps_status(t) ==
    [t EXCEPT !.metadata = [failure_stage |-> Pipeline[stage].name,
                            failure_reason |-> Pipeline[stage].name,
                            ralph_iterations |->
                                IF result.ralph_iterations > 0
                                THEN result.ralph_iterations
                                ELSE @.ralph_iterations]]

\* lines 170-174 for a stage s whose result has ralph_iterations = n: the
\* task is reset to todo and the failure is recorded (the failure reason,
\* the head of the output, is kept as the stage's name).
failed_task(t, s, n) ==
    [t EXCEPT !.status = "todo",
              !.metadata = [failure_stage |-> Pipeline[s].name,
                            failure_reason |-> Pipeline[s].name,
                            ralph_iterations |->
                                IF n > 0 THEN n ELSE @.ralph_iterations]]

\* the task after lines 170-174: reset to todo, failure recorded
task_failed(t) ==
    failed_task(t, stage, result.ralph_iterations)

\* A plausible bug: the finished task is returned as done without its
\* status being set, so it stays in the last stage's status.
task_done_status_unset(t) ==
    t

\* lines 179-181: every stage succeeded, the task is marked done
task_done(t) ==
    [t EXCEPT !.status = "done"]

\* lines 144-182: the stage has its result.  Its iterations are counted,
\* the agent is deregistered, and execute_task fails the task, moves on to
\* the next stage, or finishes the task.
StageExit ==
    /\ pc = "stage_done"
    /\ total_iterations' = total_after_stage
    /\ last_log' = IF mode # "traditional" /\ ~result.ralph_verified
                   THEN [stage |-> Pipeline[stage].name, kind |-> "ralph_final",
                         success |-> result.success]
                   ELSE last_log
    /\ agents' = deregister_agent(agents)
    /\ dereg_calls' = dereg_calls + 1
    /\ IF ~result.success
       THEN /\ task' = task_failed(task_after_stage)
            /\ ret' = "false"
            /\ pc' = "returned"
            /\ UNCHANGED stage
       ELSE IF stage = Len(Pipeline)
            THEN /\ task' = task_done(task_after_stage)
                 /\ ret' = "true"
                 /\ pc' = "returned"
                 /\ UNCHANGED stage
            ELSE /\ task' = task_after_stage
                 /\ stage' = stage + 1
                 /\ pc' = "stage_entry"
                 /\ UNCHANGED ret
    /\ db_task' = update_task(task')
    /\ status_trace' = Traced(status_trace, task'.status)
    /\ UNCHANGED <<last_cli, last_out, ralph_enabled, has_spec, iteration, result, mode,
                   reg_calls, calls, run_calls, mem_calls, started, ralph_n,
                   promised, restVars, ralphVars>>

\* A stored task in todo that no run has touched, and a pipeline at rest.
InitPipeline ==
    /\ pc = "idle"
    /\ ralph_enabled = FALSE
    /\ has_spec \in BOOLEAN
    /\ stage = 1
    /\ total_iterations = 0
    /\ iteration = 0
    /\ task = [status |-> "todo", iteration |-> 0, metadata |-> NoMetadata]
    /\ db_task = task
    /\ agents = 0
    /\ result = NoResult
    /\ ret = None
    /\ last_log = NoLog
    /\ last_cli = None
    /\ last_out = NoMarkers
    /\ mode = None
    /\ reg_calls = 0 /\ dereg_calls = 0
    /\ calls = 0 /\ run_calls = 0 /\ mem_calls = 0
    /\ status_trace = <<>>
    /\ started = <<>>
    /\ ralph_n = 0 /\ promised = FALSE

\* a pipeline that is never run, for the specifications that do not drive it
InitPipelineIdle ==
    /\ InitPipeline
    /\ has_spec = FALSE

NextPipeline ==
    \/ \E u \in {None, "true", "false"} : StartTask(u)
    \/ RegisterAgent
    \/ UpdateStatus
    \/ UpdateStatusRaises
    \/ \E c \in Criteria : BeginStage(c)
    \/ \E out \in RalphOutputs, cli_ok \in BOOLEAN, ext_ok \in BOOLEAN :
            RalphIterate(out, cli_ok, ext_ok)
    \/ \E out \in Outputs, cli_ok \in BOOLEAN : FallbackExecute(out, cli_ok)
    \/ \E out \in Outputs, cli_ok \in BOOLEAN : TraditionalIterate(out, cli_ok)
    \/ TraditionalExhausted
    \/ StageRaises
    \/ StageExit

\* ------------------------------------------------ cmd_execute (batch run)

\* The tasks of the project's one approved spec: T2 depends on T1.
BatchTasks == {"T1", "T2"}

\* Task.dependencies
dependencies == [t \in BatchTasks |-> IF t = "T2" THEN {"T1"} ELSE {}]

\* Task.completion_spec is set (T1 has one, T2 has none)
completion_spec == [t \in BatchTasks |-> t = "T1"]

\* The cmd_execute invocations, one command each; they may run one after
\* the other or at the same time.
Instances == {"A", "B"}

\* The ways cmd_execute picks its tasks: the ready tasks of a spec, all ready
\* tasks, or one task named by id.
Selections == {"spec", "all"} \cup BatchTasks

\* Store.get_task(id): a Task object, a copy of the stored row.
get_task(t) ==
    [id |-> t, status |-> store[t].status, iteration |-> store[t].iteration,
     metadata |-> store[t].metadata]

\* A task is ready when it waits in todo and every dependency is done.
is_ready(t) ==
    /\ store[t].status = "todo"
    /\ \A d \in dependencies[t] : store[d].status = "done"

\* The ids in S by descending priority, ties in creation (id) order.
RECURSIVE ByPriority(_)
ByPriority(S) ==
    IF S = {} THEN <<>>
    ELSE LET first == CHOOSE t \in S : \A u \in S :
                        \/ Priority[t] > Priority[u]
                        \/ Priority[t] = Priority[u] /\ (t = "T1" \/ u # "T1")
                                                     /\ (t # "T3" \/ u = "T3")
         IN  <<first>> \o ByPriority(S \ {first})

\* Store.get_ready_tasks: the ready tasks as Task objects, in priority order.
get_ready_tasks ==
    LET ids == ByPriority({t \in BatchTasks : is_ready(t)})
    IN  [k \in 1..Len(ids) |-> get_task(ids[k])]

\* WorktreeManager.create_worktree: an existing tree is removed and a new
\* one is added, so the task has a worktree afterwards.
create_worktree(trees, t) ==
    (trees \ {t}) \cup {t}

\* How the stage runs in execute_task (line 141).
stage_mode(t) ==
    IF ralph_config.enabled /\ completion_spec[t] THEN "ralph" ELSE "traditional"

\* execute_stage_with_ralph as a whole: the stage is verified at some
\* iteration up to the loop's maximum, or fails after the last one (a loop
\* with a maximum below 1 still runs once).
ralph_stage_results ==
    LET max == get_max_iterations_for_agent(ralph_config)
        last == IF max < 1 THEN 1 ELSE max
    IN  [success : {TRUE}, ralph_iterations : 1..last]
        \cup [success : {FALSE}, ralph_iterations : {last}]

NoTask ==
    [id |-> None, status |-> "todo", iteration |-> 0, metadata |-> NoMetadata]

\* the locals of a cmd_execute that is not running
NoInstance ==
    [pc |-> "idle", tasks |-> <<>>, task |-> NoTask, stage |-> 1,
     total_iterations |-> 0, iteration |-> 0, success |-> FALSE,
     ralph_iterations |-> 0, all_success |-> TRUE, exit_code |-> Unset]

\* history: the agent is invoked for stage s of task t
Invoked(t, s) ==
    IF s \in succeeded[t] THEN restarted \cup {<<t, s>>} ELSE restarted

\* cmd_execute lines 328-349: pick the tasks; return 0 when there are none.
CmdExecute(i, sel) ==
    /\ inst[i].pc = "idle"
    /\ LET tasks == IF sel \in BatchTasks THEN <<get_task(sel)>>
                    ELSE get_ready_tasks
       IN  inst' = [inst EXCEPT ![i] =
                IF tasks = <<>>
                THEN [NoInstance EXCEPT !.pc = "exited", !.exit_code = 0]
                ELSE [NoInstance EXCEPT !.pc = "loop", !.tasks = tasks]]
    /\ UNCHANGED <<store, agent_rows, worktrees, succeeded, restarted,
                   poolVars, ralphVars, pipeVars, mergeVars, extraVars>>

\* cmd_execute line 358 and execute_task lines 123-126: the next task of the
\* list gets its worktree and execute_task is entered.
CreateWorktree(i) ==
    /\ inst[i].pc = "loop"
    /\ worktrees' = create_worktree(worktrees, Head(inst[i].tasks).id)
    /\ inst' = [inst EXCEPT ![i].pc = "stage_entry",
                            ![i].task = Head(inst[i].tasks),
                            ![i].tasks = Tail(inst[i].tasks),
                            ![i].stage = 1,
                            ![i].total_iterations = 0]
    /\ UNCHANGED <<store, agent_rows, succeeded, restarted,
                   poolVars, ralphVars, pipeVars, mergeVars, extraVars>>

\* cmd_execute line 358 raises (git fails): lines 398-405 return 1.
CreateWorktreeRaises(i) ==
    /\ inst[i].pc = "loop"
    /\ inst' = [inst EXCEPT ![i].pc = "exited", ![i].exit_code = 1]
    /\ UNCHANGED <<store, agent_rows, worktrees, succeeded, restarted,
                   poolVars, ralphVars, pipeVars, mergeVars, extraVars>>

\* execute_task lines 128-138: the agent row, the stage's status.
EnterStage(i) ==
    /\ inst[i].pc = "stage_entry"
    /\ LET t == inst[i].task.id
           obj == [inst[i].task EXCEPT
                      !.status = get_stage_status(Pipeline[inst[i].stage].agent_type)]
       IN  /\ agent_rows' = [agent_rows EXCEPT ![t] = register_agent(@)]
           /\ store' = [store EXCEPT ![t] = update_task(obj)]
           /\ inst' = [inst EXCEPT ![i].pc = "stage_body", ![i].task = obj,
                                   ![i].iteration = 0]
    /\ UNCHANGED <<worktrees, succeeded, restarted,
                   poolVars, ralphVars, pipeVars, mergeVars, extraVars>>

\* _execute_stage_traditional lines 208-239: one pass of the loop; ok is the
\* success of the agent invocation (_execute_stage).
StageTraditionalIterate(i, ok) ==
    /\ inst[i].pc = "stage_body"
    /\ stage_mode(inst[i].task.id) = "traditional"
    /\ inst[i].iteration < Pipeline[inst[i].stage].max_iterations
    /\ inst[i].total_iterations < max_total_iterations
    /\ LET t == inst[i].task.id
           obj == [inst[i].task EXCEPT !.iteration = inst[i].total_iterations + 1]
       IN  /\ store' = [store EXCEPT ![t] = update_task(obj)]
           /\ restarted' = Invoked(t, inst[i].stage)
           /\ inst' = [inst EXCEPT ![i].task = obj,
                                   ![i].iteration = @ + 1,
                                   ![i].total_iterations = @ + 1,
                                   ![i].success = ok,
                                   ![i].ralph_iterations = 0,
                                   ![i].pc = IF ok THEN "stage_done" ELSE @]
    /\ UNCHANGED <<agent_rows, worktrees, succeeded,
                   poolVars, ralphVars, pipeVars, mergeVars, extraVars>>

\* _execute_stage_traditional lines 241-249: the loop ends without success.
StageTraditionalExhausted(i) ==
    /\ inst[i].pc = "stage_body"
    /\ stage_mode(inst[i].task.id) = "traditional"
    /\ ~(/\ inst[i].iteration < Pipeline[inst[i].stage].max_iterations
         /\ inst[i].total_iterations < max_total_iterations)
    /\ inst' = [inst EXCEPT ![i].success = FALSE, ![i].ralph_iterations = 0,
                            ![i].pc = "stage_done"]
    /\ UNCHANGED <<store, agent_rows, worktrees, succeeded, restarted,
                   poolVars, ralphVars, pipeVars, mergeVars, extraVars>>

\* execute_task lines 141-146: the stage runs under a Ralph loop and its
\* iterations are added to the task's count.
StageRalph(i, r) ==
    /\ inst[i].pc = "stage_body"
    /\ stage_mode(inst[i].task.id) = "ralph"
    /\ LET t == inst[i].task.id
           total == inst[i].total_iterations + r.ralph_iterations
           obj == [inst[i].task EXCEPT !.iteration = total]
       IN  /\ store' = [store EXCEPT ![t] = update_task(obj)]
           /\ restarted' = Invoked(t, inst[i].stage)
           /\ inst' = [inst EXCEPT ![i].task = obj,
                                   ![i].total_iterations = total,
                                   ![i].success = r.success,
                                   ![i].ralph_iterations = r.ralph_iterations,
                                   ![i].pc = "stage_done"]
    /\ UNCHANGED <<agent_rows, worktrees, succeeded,
                   poolVars, ralphVars, pipeVars, mergeVars, extraVars>>

\* cmd_execute lines 361-389 once execute_task has returned ok: the result
\* is recorded, the loop goes on to the next task or the command exits.
after_execute_task(in, ok) ==
    LET all_ok == in.all_success /\ ok
    IN  IF in.tasks = <<>>
        THEN [in EXCEPT !.all_success = all_ok, !.pc = "exited",
                        !.exit_code = IF all_ok THEN 0 ELSE 1]
        ELSE [in EXCEPT !.all_success = all_ok, !.pc = "loop"]

\* execute_task lines 164-182: the agent row is deleted; a failed stage
\* resets the task and returns False, the last stage finishes the task and
\* returns True, any other stage is followed by the next one.
LeaveStage(i) ==
    /\ inst[i].pc = "stage_done"
    /\ LET t == inst[i].task.id
           failed == failed_task(inst[i].task, inst[i].stage, inst[i].ralph_iterations)
           done == [inst[i].task EXCEPT !.status = "done"]
       IN  /\ agent_rows' = [agent_rows EXCEPT ![t] = deregister_agent(@)]
           /\ IF ~inst[i].success
              THEN /\ store' = [store EXCEPT ![t] = update_task(failed)]
                   /\ inst' = [inst EXCEPT ![i] =
                                after_execute_task([@ EXCEPT !.task = failed], FALSE)]
                   /\ UNCHANGED succeeded
              ELSE /\ succeeded' = [succeeded EXCEPT ![t] = @ \cup {inst[i].stage}]
                   /\ IF inst[i].stage = Len(Pipeline)
                      THEN /\ store' = [store EXCEPT ![t] = update_task(done)]
                           /\ inst' = [inst EXCEPT ![i] =
                                        after_execute_task([@ EXCEPT !.task = done], TRUE)]
                      ELSE /\ inst' = [inst EXCEPT ![i].stage = @ + 1,
                                                   ![i].pc = "stage_entry"]
                           /\ UNCHANGED store
    /\ UNCHANGED <<worktrees, restarted,
                   poolVars, ralphVars, pipeVars, mergeVars, extraVars>>

\* A project whose tasks all wait in todo; no command is running.
InitBatch ==
    /\ store = [t \in BatchTasks |->
                    [status |-> "todo", iteration |-> 0, metadata |-> NoMetadata]]
    /\ agent_rows = [t \in BatchTasks |-> 0]
    /\ worktrees = {}
    /\ inst = [i \in Instances |-> NoInstance]
    /\ succeeded = [t \in BatchTasks |-> {}]
    /\ restarted = {}

NextBatch ==
    \/ \E i \in Instances, sel \in Selections : CmdExecute(i, sel)
    \/ \E i \in Instances : CreateWorktree(i)
    \/ \E i \in Instances : CreateWorktreeRaises(i)
    \/ \E i \in Instances : EnterStage(i)
    \/ \E i \in Instances, ok \in BOOLEAN : StageTraditionalIterate(i, ok)
    \/ \E i \in Instances : StageTraditionalExhausted(i)
    \/ \E i \in Instances, r \in ralph_stage_results : StageRalph(i, r)
    \/ \E i \in Instances : LeaveStage(i)

\* ------------------------------------------------------ MergeOrchestrator

\* The callers of merge_task that may run at the same time.
MergeWorkers == {"w1", "w2"}

\* The files of trunk a merge may conflict in, and the sets a conflicted
\* merge reports.
Files == {"f", "g"}
ConflictSets == (SUBSET Files) \ {{}}

\* the trunk repository before any merge
CleanRepo ==
    [merge_head |-> FALSE, conflicts |-> {}, written |-> {}, staged |-> {},
     commits |-> 0]

\* the locals of a merge_task call that has not been made
NoWorker ==
    [pc |-> "idle", tier |-> 0, invoked |-> <<>>, results |-> <<>>,
     t1 |-> None, files |-> {}, failed |-> FALSE, base |-> 0, ret |-> None]

\* git merge stops on conflicts in F: a merge is in progress (MERGE_HEAD).
git_merge_conflicted(r, F) ==
    [r EXCEPT !.merge_head = TRUE, !.conflicts = F]

\* git merge --abort: the working copy and index are back at HEAD.
git_merge_abort(r) ==
    [r EXCEPT !.merge_head = FALSE, !.conflicts = {}, !.written = {},
              !.staged = {}]

\* git commit succeeds only in a merge with no unmerged path left.
git_can_commit(r) ==
    r.merge_head /\ r.conflicts = {}

\* git commit (or a clean git merge): the merge commit is on trunk.
git_commit(r) ==
    [r EXCEPT !.merge_head = FALSE, !.written = {}, !.staged = {},
              !.commits = @ + 1]

\* A plausible bug: a tier's success does not end the loop before the last
\* tier.
after_strategy_try_all(wk, success) ==
    IF wk.tier = 3
    THEN [wk EXCEPT !.results = Append(@, success), !.pc = "done",
                    !.ret = IF success THEN "true" ELSE "false"]
    ELSE [wk EXCEPT !.results = Append(@, success), !.tier = @ + 1,
                    !.invoked = Append(@, wk.tier + 1), !.pc = "checkout"]

\* merge_task lines 556-564: a strategy has returned; success ends the call
\* with True, the last tier's failure ends it with False, any other failure
\* moves on to the next tier.
after_strategy(wk, success) ==
    IF success
    THEN [wk EXCEPT !.results = Append(@, TRUE), !.pc = "done", !.ret = "true"]
    ELSE IF wk.tier = 3
         THEN [wk EXCEPT !.results = Append(@, FALSE), !.pc = "done",
                         !.ret = "false"]
         ELSE [wk EXCEPT !.results = Append(@, FALSE), !.tier = @ + 1,
                         !.invoked = Append(@, wk.tier + 1), !.pc = "checkout"]

\* an exception leaves the strategy and merge_task
strategy_raised(wk) ==
    [wk EXCEPT !.pc = "done", !.ret = "raised"]

\* merge_task lines 546-555: the source branch is verified and tier 1 begins.
MergeTask(w, branch_exists) ==
    /\ worker[w].pc \in {"idle", "done"}
    /\ repo.commits < MaxMerges
    /\ worker' = [worker EXCEPT ![w] =
            IF branch_exists
            THEN [NoWorker EXCEPT !.pc = "checkout", !.tier = 1,
                                  !.invoked = <<1>>, !.base = repo.commits]
            ELSE [NoWorker EXCEPT !.pc = "done", !.ret = "false",
                                  !.base = repo.commits]]
    /\ UNCHANGED <<repo, poolVars, ralphVars, pipeVars, batchVars, extraVars>>

\* lines 31, 68, 280: git checkout of the target branch.  A failure ends the
\* strategy with (False, ...); in tier 1 it is a failure without conflict.
GitCheckout(w, ok) ==
    /\ worker[w].pc = "checkout"
    /\ LET wk == worker[w] IN
       worker' = [worker EXCEPT ![w] =
            IF ok THEN [wk EXCEPT !.pc = "merge"]
            ELSE after_strategy([wk EXCEPT !.t1 = IF wk.tier = 1 THEN "error"
                                                 ELSE wk.t1], FALSE)]
    /\ UNCHANGED <<repo, poolVars, ralphVars, pipeVars, batchVars, extraVars>>

\* lines 34-48, 74-77, 286-289: git merge --no-ff.  It merges cleanly, stops
\* on the conflicts F, or fails otherwise (left: the failure left a merge in
\* progress, as a failing commit hook does; a merge already in progress makes
\* it fail at once).  Tier 1 returns on success and on a failure without
\* conflict; tiers 2 and 3 go on to read the status after any failure.
GitMerge(w, outcome, F, left) ==
    /\ worker[w].pc = "merge"
    /\ LET wk == worker[w]
           got == IF repo.merge_head THEN "error" ELSE outcome
           t1 == IF wk.tier = 1 THEN got ELSE wk.t1
       IN  CASE got = "success" ->
                  /\ repo' = [repo EXCEPT !.commits = @ + 1]
                  /\ worker' = [worker EXCEPT ![w] =
                                  after_strategy([wk EXCEPT !.t1 = t1], TRUE)]
             [] got = "conflict" ->
                  /\ repo' = git_merge_conflicted(repo, F)
                  /\ worker' = [worker EXCEPT ![w] =
                                  [wk EXCEPT !.t1 = t1,
                                             !.pc = IF wk.tier = 1 THEN "abort"
                                                    ELSE "status"]]
             [] got = "error" ->
                  /\ repo' = IF left /\ ~repo.merge_head
                             THEN [repo EXCEPT !.merge_head = TRUE]
                             ELSE repo
                  /\ worker' = [worker EXCEPT ![w] =
                                  IF wk.tier = 1
                                  THEN after_strategy([wk EXCEPT !.t1 = t1], FALSE)
                                  ELSE [wk EXCEPT !.pc = "status"]]
    /\ UNCHANGED <<poolVars, ralphVars, pipeVars, batchVars, extraVars>>

\* lines 40-46: tier 1 aborts the conflicted merge, ignores a failure of the
\* abort, and returns (False, ...).
AbortConflicted(w, abort_ok) ==
    /\ worker[w].pc = "abort"
    /\ repo' = IF abort_ok /\ repo.merge_head THEN git_merge_abort(repo) ELSE repo
    /\ worker' = [worker EXCEPT ![w] = after_strategy(@, FALSE)]
    /\ UNCHANGED <<poolVars, ralphVars, pipeVars, batchVars, extraVars>>

\* lines 80-88, 292-300: git status lists the conflicted files.  When it
\* fails the merge is aborted outside any try block.
GitStatus(w, ok, abort_ok) ==
    /\ worker[w].pc = "status"
    /\ IF ok
       THEN /\ worker' = [worker EXCEPT ![w].files = repo.conflicts,
                                        ![w].failed = FALSE,
                                        ![w].pc = IF repo.conflicts = {}
                                                  THEN "commit" ELSE "resolve"]
            /\ UNCHANGED repo
       ELSE IF abort_ok /\ repo.merge_head
            THEN /\ repo' = git_merge_abort(repo)
                 /\ worker' = [worker EXCEPT ![w] = after_strategy(@, FALSE)]
            ELSE /\ worker' = [worker EXCEPT ![w] = strategy_raised(@)]
                 /\ UNCHANGED repo
    /\ UNCHANGED <<poolVars, ralphVars, pipeVars, batchVars, extraVars>>

\* lines 104-116, 316-340: one conflicted file.  The AI's resolution (tier 2)
\* or regeneration (tier 3) is written to the file and the file is staged; a
\* failure of either puts the file on the failed list.
ResolveFile(w, f, ai_ok, add_ok) ==
    /\ worker[w].pc = "resolve"
    /\ f \in worker[w].files
    /\ repo' = IF ~ai_ok THEN repo
               ELSE IF ~add_ok THEN [repo EXCEPT !.written = @ \cup {f}]
               ELSE [repo EXCEPT !.written = @ \cup {f},
                                 !.staged = @ \cup {f},
                                 !.conflicts = @ \ {f}]
    /\ worker' = [worker EXCEPT ![w].files = @ \ {f},
                                ![w].failed = @ \/ ~ai_ok \/ ~add_ok]
    /\ UNCHANGED <<poolVars, ralphVars, pipeVars, batchVars, extraVars>>

\* lines 118-135, 342-359: every file was handled.  With a failed file the
\* merge is aborted; otherwise it is committed, and aborted when the commit
\* fails.  A failure of the abort is ignored.
FinishResolve(w, commit_ok, abort_ok) ==
    /\ worker[w].pc = "resolve"
    /\ worker[w].files = {}
    /\ IF ~worker[w].failed /\ commit_ok /\ git_can_commit(repo)
       THEN /\ repo' = git_commit(repo)
            /\ worker' = [worker EXCEPT ![w] = after_strategy(@, TRUE)]
       ELSE /\ repo' = IF abort_ok /\ repo.merge_head
                       THEN git_merge_abort(repo) ELSE repo
            /\ worker' = [worker EXCEPT ![w] = after_strategy(@, FALSE)]
    /\ UNCHANGED <<poolVars, ralphVars, pipeVars, batchVars, extraVars>>

\* lines 90-97, 302-309: no conflicted file was listed, so the merge is
\* committed; when the commit fails the merge is aborted outside any try
\* block.
CommitNoConflicts(w, commit_ok, abort_ok) ==
    /\ worker[w].pc = "commit"
    /\ IF commit_ok /\ git_can_commit(repo)
       THEN /\ repo' = git_commit(repo)
            /\ worker' = [worker EXCEPT ![w] = after_strategy(@, TRUE)]
       ELSE IF abort_ok /\ repo.merge_head
            THEN /\ repo' = git_merge_abort(repo)
                 /\ worker' = [worker EXCEPT ![w] = after_strategy(@, FALSE)]
            ELSE /\ worker' = [worker EXCEPT ![w] = strategy_raised(@)]
                 /\ UNCHANGED repo
    /\ UNCHANGED <<poolVars, ralphVars, pipeVars, batchVars, extraVars>>

\* MergeOrchestrator.__init__ on a trunk with no merge in progress.
InitMerge ==
    /\ repo = CleanRepo
    /\ worker = [w \in MergeWorkers |-> NoWorker]

\* the steps of the merge_task call of worker w
MergeStep(w) ==
    \/ \E branch_exists \in BOOLEAN : MergeTask(w, branch_exists)
    \/ \E ok \in BOOLEAN : GitCheckout(w, ok)
    \/ \E outcome \in {"success", "conflict", "error"}, F \in ConflictSets,
          left \in BOOLEAN : GitMerge(w, outcome, F, left)
    \/ \E abort_ok \in BOOLEAN : AbortConflicted(w, abort_ok)
    \/ \E ok \in BOOLEAN, abort_ok \in BOOLEAN : GitStatus(w, ok, abort_ok)
    \/ \E f \in Files, ai_ok \in BOOLEAN, add_ok \in BOOLEAN :
            ResolveFile(w, f, ai_ok, add_ok)
    \/ \E commit_ok \in BOOLEAN, abort_ok \in BOOLEAN :
            FinishResolve(w, commit_ok, abort_ok)
    \/ \E commit_ok \in BOOLEAN, abort_ok \in BOOLEAN :
            CommitNoConflicts(w, commit_ok, abort_ok)

\* merge_task called by one worker at a time
NextMerge ==
    MergeStep("w1")

\* merge_task called by any worker at any time
NextMergeConcurrent ==
    \E w \in MergeWorkers : MergeStep(w)

\* ------------------------------------------------- cmd_execute's exit code

\* cmd_execute on its own: what it returns, given what Project.load, the
\* Store, create_worktree and execute_task return or raise.

\* the kinds of request: a task named by id, the ready tasks of a spec, all
\* ready tasks
CommandKinds == {"task", "spec", "all"}

\* the locals of a cmd_execute call that has not been made
NoCommand ==
    [pc |-> "idle", kind |-> None, tasks |-> 0, results |-> <<>>,
     error |-> None, exit_code |-> Unset]

\* A plausible bug: the exit code reports whether any task succeeded.
batch_exit_code_any(results) ==
    IF \E k \in DOMAIN results : results[k] THEN 0 ELSE 1

\* line 389: 0 if all(r["success"] for r in results) else 1
batch_exit_code(results) ==
    IF \A k \in DOMAIN results : results[k] THEN 0 ELSE 1

\* a return statement of cmd_execute
command_exited(c, code, error) ==
    [c EXCEPT !.pc = "exited", !.exit_code = code, !.error = error]

\* lines 314-351: the project is loaded and the tasks are picked.  Outside
\* a project Project.load raises FileNotFoundError (exit code 1); a named
\* task that does not exist gives exit code 1; an empty list of ready tasks
\* gives exit code 0.  n is the number of ready tasks the Store returns.
ExecuteBegin(kind, loaded, found, n) ==
    /\ cmd.pc \in {"idle", "exited"}
    /\ LET c == [NoCommand EXCEPT !.kind = kind] IN
       cmd' = IF ~loaded THEN command_exited(c, 1, "not_a_project")
              ELSE IF kind = "task"
                   THEN IF ~found THEN command_exited(c, 1, "task_not_found")
                        ELSE [c EXCEPT !.pc = "loop", !.tasks = 1]
                   ELSE IF n = 0 THEN command_exited(c, 0, None)
                        ELSE [c EXCEPT !.pc = "loop", !.tasks = n]
    /\ UNCHANGED <<wt, wt_ret, ms_in, ms_ret, poolVars, ralphVars, pipeVars,
                   batchVars, mergeVars>>

\* line 358: the next task's worktree is created; an exception is caught
\* by `except Exception` (lines 398-405, exit code 1).
ExecuteCreateWorktree(ok) ==
    /\ cmd.pc = "loop"
    /\ cmd' = IF ok THEN [cmd EXCEPT !.pc = "task"]
              ELSE command_exited(cmd, 1, "worktree")
    /\ UNCHANGED <<wt, wt_ret, ms_in, ms_ret, poolVars, ralphVars, pipeVars,
                   batchVars, mergeVars>>

\* lines 361-389: execute_task returns True or False, which is recorded, or
\* raises (exit code 1); after the last task the exit code is computed.
ExecuteTask(outcome) ==
    /\ cmd.pc = "task"
    /\ cmd' = IF outcome = "raises" THEN command_exited(cmd, 1, "pipeline")
              ELSE LET results == Append(cmd.results, outcome = "true") IN
                   IF Len(results) < cmd.tasks
                   THEN [cmd EXCEPT !.pc = "loop", !.results = results]
                   ELSE command_exited([cmd EXCEPT !.results = results],
                                       batch_exit_code(results), None)
    /\ UNCHANGED <<wt, wt_ret, ms_in, ms_ret, poolVars, ralphVars, pipeVars,
                   batchVars, mergeVars>>

InitExecute ==
    cmd = NoCommand

NextExecute ==
    \/ \E kind \in CommandKinds, loaded, found \in BOOLEAN, n \in 0..MaxTasks :
            ExecuteBegin(kind, loaded, found, n)
    \/ \E ok \in BOOLEAN : ExecuteCreateWorktree(ok)
    \/ \E outcome \in {"true", "false", "raises"} : ExecuteTask(outcome)

\* ------------------------------------------------------- WorktreeManager

\* A task's worktree, as far as git and the manager tell it apart:
\*   dir         the directory .worktrees/<id>: "absent", "fresh" (just
\*               checked out from the base branch), "dirty" (holds
\*               uncommitted work), "committed" (holds work committed to
\*               the task branch, nothing uncommitted)
\*   registered  git lists the worktree (it has task/<id> checked out)
\*   branch      the branch task/<id>: "absent", "base" (at the base
\*               branch's commit), "ahead" (carries the task's commits)
NoTree ==
    [dir |-> "absent", registered |-> FALSE, branch |-> "absent"]

FreshTree ==
    [dir |-> "fresh", registered |-> TRUE, branch |-> "base"]

\* lines 36, 66: worktree_base / task_id
worktree_path(t) ==
    <<".worktrees", t>>

\* WorktreeManager.has_uncommitted_changes
has_uncommitted_changes(tr) ==
    tr.dir = "dirty"

\* git worktree remove [--force] <path>: only a registered worktree with
\* its directory can be removed; the directory and the registration go.
git_worktree_remove_ok(tr) ==
    tr.registered /\ tr.dir # "absent"

git_worktree_remove(tr) ==
    [tr EXCEPT !.dir = "absent", !.registered = FALSE]

\* shutil.rmtree: the directory goes, git's registration stays.
rmtree(tr) ==
    [tr EXCEPT !.dir = "absent"]

\* git worktree prune: the registration of a missing directory is dropped.
git_worktree_prune(tr) ==
    IF tr.dir = "absent" THEN [tr EXCEPT !.registered = FALSE] ELSE tr

\* git branch -D task/<id>: refused while the branch is checked out in a
\* registered worktree, and when there is no such branch.
git_branch_delete(tr) ==
    IF tr.branch # "absent" /\ ~tr.registered
    THEN [tr EXCEPT !.branch = "absent"]
    ELSE tr

\* git worktree add <path> -b task/<id> <base>: needs the base branch, a
\* free path and no branch of that name.
git_worktree_add_ok(tr, base_exists) ==
    /\ base_exists
    /\ tr.dir = "absent" /\ ~tr.registered
    /\ tr.branch = "absent"

\* What stops a git command or rmtree from outside the model (permissions,
\* locks, a full disk): each flag says the command works as git defines it.
Faults == [remove_ok : BOOLEAN, rmtree_ok : BOOLEAN, prune_ok : BOOLEAN,
           add_ok : BOOLEAN]

NoFault ==
    [remove_ok |-> TRUE, rmtree_ok |-> TRUE, prune_ok |-> TRUE, add_ok |-> TRUE]

\* WorktreeManager.remove_worktree: <<tree afterwards, how the call ended>>
worktree_removed(tr, force, env) ==
    IF tr.dir = "absent" THEN <<tr, "ok">>
    ELSE IF ~force /\ has_uncommitted_changes(tr) THEN <<tr, "RuntimeError">>
    ELSE LET gone ==
               IF env.remove_ok /\ git_worktree_remove_ok(tr)
               THEN <<git_worktree_remove(tr), "ok">>
               ELSE IF force
                    THEN IF env.rmtree_ok THEN <<rmtree(tr), "ok">>
                         ELSE <<tr, "OSError">>
                    ELSE <<tr, "GitCommandError">>
         IN  IF gone[2] # "ok" THEN gone
             ELSE IF env.prune_ok THEN <<git_worktree_prune(gone[1]), "ok">>
                  ELSE gone

\* A plausible bug: an existing worktree is kept and its path returned.
worktree_created_reuse(tr, base_exists, env) ==
    IF tr.dir # "absent" THEN <<tr, "ok">>
    ELSE LET deleted == git_branch_delete(tr) IN
         IF env.add_ok /\ git_worktree_add_ok(deleted, base_exists)
         THEN <<FreshTree, "ok">>
         ELSE <<deleted, "RuntimeError">>

\* WorktreeManager.create_worktree: <<tree afterwards, how the call ended>>.
\* An existing directory is removed by force, the branch is deleted (a
\* failure of that is ignored), and the worktree is added on a new branch.
worktree_created(tr, base_exists, env) ==
    LET removed == IF tr.dir # "absent" THEN worktree_removed(tr, TRUE, env)
                   ELSE <<tr, "ok">>
    IN  IF removed[2] # "ok" THEN removed
        ELSE LET deleted == git_branch_delete(removed[1]) IN
             IF env.add_ok /\ git_worktree_add_ok(deleted, base_exists)
             THEN <<FreshTree, "ok">>
             ELSE <<deleted, "RuntimeError">>

\* what a WorktreeManager call was made on and how it ended
TreeReturn(op, t, before, base_exists, env, outcome) ==
    [op |-> op, task |-> t, path |-> worktree_path(t), before |-> before,
     base_exists |-> base_exists, git_ok |-> env = NoFault,
     outcome |-> outcome]

NoTreeReturn ==
    TreeReturn("init", None, NoTree, TRUE, NoFault, "ok")

\* create_worktree(t, base_branch)
WorktreeCreate(t, base_exists, env) ==
    /\ LET r == worktree_created(wt[t], base_exists, env) IN
       /\ wt' = [wt EXCEPT ![t] = r[1]]
       /\ wt_ret' = TreeReturn("create", t, wt[t], base_exists, env, r[2])
    /\ UNCHANGED <<cmd, ms_in, ms_ret, poolVars, ralphVars, pipeVars,
                   batchVars, mergeVars>>

\* remove_worktree(t, force)
WorktreeRemove(t, force, env) ==
    /\ LET r == worktree_removed(wt[t], force, env) IN
       /\ wt' = [wt EXCEPT ![t] = r[1]]
       /\ wt_ret' = TreeReturn(IF force THEN "remove_force" ELSE "remove",
                               t, wt[t], TRUE, env, r[2])
    /\ UNCHANGED <<cmd, ms_in, ms_ret, poolVars, ralphVars, pipeVars,
                   batchVars, mergeVars>>

\* The agent works in the task's worktree: it edits files, or commits what
\* it edited to the task branch (commit_changes, lines 135-169).
AgentEdits(t) ==
    /\ wt[t].dir # "absent" /\ wt[t].registered
    /\ wt' = [wt EXCEPT ![t].dir = "dirty"]
    /\ wt_ret' = TreeReturn("edit", t, wt[t], TRUE, NoFault, "ok")
    /\ UNCHANGED <<cmd, ms_in, ms_ret, poolVars, ralphVars, pipeVars,
                   batchVars, mergeVars>>

AgentCommits(t) ==
    /\ wt[t].dir = "dirty" /\ wt[t].registered
    /\ wt' = [wt EXCEPT ![t].dir = "committed", ![t].branch = "ahead"]
    /\ wt_ret' = TreeReturn("commit", t, wt[t], TRUE, NoFault, "ok")
    /\ UNCHANGED <<cmd, ms_in, ms_ret, poolVars, ralphVars, pipeVars,
                   batchVars, mergeVars>>

\* a repository without any task worktree
InitWorktree ==
    /\ wt = [t \in BatchTasks |-> NoTree]
    /\ wt_ret = NoTreeReturn

NextWorktree ==
    \/ \E t \in BatchTasks, base_exists \in BOOLEAN, env \in Faults :
            WorktreeCreate(t, base_exists, env)
    \/ \E t \in BatchTasks, force \in BOOLEAN, env \in Faults :
            WorktreeRemove(t, force, env)
    \/ \E t \in BatchTasks : AgentEdits(t)
    \/ \E t \in BatchTasks : AgentCommits(t)

\* ------------------------------------ PromiseVerifier._verify_multi_stage

\* A stage of a multi_stage configuration, as far as the verifier reads it:
\*   method    the stage's method string: one of the three methods a stage
\*             is dispatched to, "multi_stage" (a nested one), or a string
\*             that names no VerificationMethod
\*   required  the stage's required flag
\*   verdict   what the stage's own verifier answers for the output
StageMethods == {"string_match", "semantic", "external", "multi_stage", "bogus"}

Stages == [method : StageMethods, required : BOOLEAN, verdict : BOOLEAN]

\* the sequences over S of length at most n
RECURSIVE SeqsUpTo(_, _)
SeqsUpTo(S, n) ==
    IF n = 0 THEN {<<>>}
    ELSE LET shorter == SeqsUpTo(S, n - 1)
         IN  shorter \cup {Append(q, x) : q \in shorter, x \in S}

\* lines 893-926: what one stage contributes to results.  A method string
\* that names no VerificationMethod fails; string_match, semantic and
\* external are run; any other method is skipped and passes.
stage_passed(st) ==
    IF st.method = "bogus" THEN FALSE
    ELSE IF st.method \in {"string_match", "semantic", "external"}
         THEN st.verdict
         ELSE TRUE

\* lines 928-930: the early exit, reached only by a stage whose method
\* string names a VerificationMethod
stage_exits_early(st, require_all) ==
    /\ st.method # "bogus"
    /\ ~stage_passed(st) /\ st.required /\ require_all

\* PromiseVerifier._verify_multi_stage: passed or not
verify_multi_stage(cfg) ==
    LET stages == cfg.stages IN
    IF stages = <<>> THEN TRUE
    ELSE IF \E k \in DOMAIN stages :
                stage_exits_early(stages[k], cfg.require_all)
         THEN FALSE
         ELSE ~\E k \in DOMAIN stages :
                  stages[k].required /\ ~stage_passed(stages[k])

\* verify() with the multi_stage method is called on the configuration
VerifyMultiStage ==
    /\ ms_ret = None
    /\ ms_ret' = IF verify_multi_stage(ms_in) THEN "true" ELSE "false"
    /\ UNCHANGED <<ms_in, cmd, wt, wt_ret, poolVars, ralphVars, pipeVars,
                   batchVars, mergeVars>>

\* any configuration of at most MaxStages stages
InitVerify ==
    /\ ms_in \in [stages : SeqsUpTo(Stages, MaxStages), require_all : BOOLEAN]
    /\ ms_ret = None

InitVerifyIdle ==
    /\ ms_in = None
    /\ ms_ret = None

NextVerify ==
    VerifyMultiStage

\* ---------------------------------------------------------- specifications


\* an unused pool, for the specifications that do not drive it
InitPoolIdle ==
    /\ max_agents = 0
    /\ slots = <<>>
    /\ task_queue = <<>>
    /\ pool_ret = <<"init", None>>
    /\ last_event = <<>>
    /\ status_callbacks = 0
    /\ notified = NotNotified
    /\ pending = <<>>

\* cmd_execute's exit code, the worktrees and the multi-stage verifier at
\* rest, for the specifications that do not drive them
InitExtraIdle == InitExecute /\ InitWorktree /\ InitVerifyIdle

\* cmd_execute and merge_task never called, for the other specifications
InitRestIdle == InitBatch /\ InitMerge /\ InitExtraIdle

InitSpecPool == InitPool /\ InitRalphIdle /\ InitPipelineIdle /\ InitRestIdle

InitSpecRalph == InitRalph /\ InitPoolIdle /\ InitPipelineIdle /\ InitRestIdle

InitSpec ==
    /\ InitPipeline /\ InitRalph /\ InitPoolIdle /\ InitRestIdle
    /\ ralph_config \in PipelineConfigs

\* cmd_execute in a project with Ralph loops enabled: the task with a
\* completion spec runs under Ralph loops, the other in the traditional mode
InitSpecBatch ==
    /\ InitBatch /\ InitRalph /\ InitPoolIdle /\ InitPipelineIdle /\ InitMerge
    /\ InitExtraIdle
    /\ ralph_config \in PipelineConfigs
    /\ ralph_config.enabled

InitSpecMerge ==
    /\ InitMerge /\ InitBatch /\ InitPoolIdle /\ InitRalphIdle /\ InitPipelineIdle
    /\ InitExtraIdle

SpecPool == InitSpecPool /\ [][NextPool]_vars

SpecNotify == InitSpecPool /\ [][NextNotify]_vars

SpecRalph == InitSpecRalph /\ [][NextRalph]_vars

SpecRalphLifecycle == InitSpecRalph /\ [][NextRalphLifecycle]_vars

Spec == InitSpec /\ [][NextPipeline]_vars

SpecBatch == InitSpecBatch /\ [][NextBatch]_vars

SpecMerge == InitSpecMerge /\ [][NextMerge]_vars

SpecMergeConcurrent == InitSpecMerge /\ [][NextMergeConcurrent]_vars

InitSpecExecute ==
    /\ InitExecute /\ InitWorktree /\ InitVerifyIdle
    /\ InitPoolIdle /\ InitRalphIdle /\ InitPipelineIdle /\ InitBatch /\ InitMerge

SpecExecute == InitSpecExecute /\ [][NextExecute]_vars

InitSpecWorktree ==
    /\ InitWorktree /\ InitExecute /\ InitVerifyIdle
    /\ InitPoolIdle /\ InitRalphIdle /\ InitPipelineIdle /\ InitBatch /\ InitMerge

SpecWorktree == InitSpecWorktree /\ [][NextWorktree]_vars

InitSpecVerify ==
    /\ InitVerify /\ InitExecute /\ InitWorktree
    /\ InitPoolIdle /\ InitRalphIdle /\ InitPipelineIdle /\ InitBatch /\ InitMerge

SpecVerify == InitSpecVerify /\ [][NextVerify]_vars

\* ------------------------------------------------------------------ claims

\* C1: for a pool of capacity N, after any sequence of assign_task,
\* complete_task, fail_task, queue_task and dequeue_task calls the number of
\* slots whose status is running never exceeds N.
C1_RunningWithinCapacity ==
    Cardinality({i \in DOMAIN slots : slots[i].status = "running"}) <= max_agents

\* C1 witness: a pool of positive capacity with every slot running.
C1_Witness ==
    /\ max_agents > 0
    /\ Cardinality({i \in DOMAIN slots : slots[i].status = "running"}) = max_agents
    /\ pool_ret[1] = "assign_task" /\ pool_ret[2] = 0

\* C2: at most one slot of the pool references a given task id (no two
\* running slots carry the same task_id), also when assign_task is called for
\* a task that already holds a slot.
C2_OneSlotPerTask ==
    \A i, j \in DOMAIN slots :
        (i # j /\ slots[i].status = "running" /\ slots[j].status = "running")
            => slots[i].task_id # slots[j].task_id

\* C3: when a stage of execute_task fails, the stored task is reset to todo,
\* its metadata names the failing stage and holds a failure reason, no later
\* stage is started, and execute_task returns False.
C3_StageFailure ==
    /\ (pc = "returned" /\ ~result.success) =>
            /\ db_task.status = "todo"
            /\ db_task.metadata.failure_stage = Pipeline[stage].name
            /\ db_task.metadata.failure_reason # None
            /\ ret = "false"
            /\ started[Len(started)] = stage
    /\ (pc = "stage_entry" /\ stage > 1) => result.success

\* C3 witness: the second stage failed and execute_task has returned.
C3_Witness ==
    /\ pc = "returned" /\ ~result.success
    /\ stage = 2 /\ calls > 0
    /\ ret = "false" /\ db_task.status = "todo"

ExpectedStatuses ==
    <<"implementing", "reviewing", "testing", "reviewing", "done">>

IsPrefix(s, t) ==
    /\ Len(s) <= Len(t)
    /\ \A i \in 1..Len(s) : s[i] = t[i]

\* C4: in a run of execute_task in which every stage succeeds the stages run
\* in the declared order, a stage starts only after the previous one reported
\* success, and the stored status takes the values implementing, reviewing,
\* testing, reviewing, done in exactly that order.
C4_StageOrder ==
    /\ ret # "false" =>
            /\ IsPrefix(status_trace, ExpectedStatuses)
            /\ started = [i \in 1..Len(started) |-> i]
            /\ (pc # "idle" => stage \in {Len(started), Len(started) + 1})
    /\ (pc = "stage_entry" /\ stage > 1) => result.success
    /\ ret = "true" =>
            /\ status_trace = ExpectedStatuses
            /\ started = <<1, 2, 3, 4>>
            /\ db_task.status = "done"

\* C4 witness: a run that went through all four stages and returned True.
C4_Witness ==
    /\ pc = "returned" /\ ret = "true"
    /\ Len(status_trace) = 5 /\ Len(started) = 4

\* C5: for every Ralph loop iteration <= max_iterations, over any sequence
\* of start / increment / should_continue calls and every max_iterations a
\* loop can be started with.
C5_IterationWithinMax ==
    ralph.active => ralph.iteration <= ralph.max_iterations

\* the should_continue decision table of C6, for a given reading of
\* "a promise is present in the output"
DecisionTable(present) ==
    (/\ ralph_ret.op = "should_continue" /\ ralph_ret.err = None
     /\ ralph_in.iteration <= ralph_in.max_iterations) =>
        LET below == ralph_in.iteration < ralph_in.max_iterations
            want  == CASE ~present /\ below                      -> <<TRUE, "no_promise">>
                       [] ~present /\ ~below                     -> <<FALSE, "max_no_promise">>
                       [] present /\ ralph_in.passes             -> <<FALSE, "verified">>
                       [] present /\ ~ralph_in.passes /\ below   -> <<TRUE, "verification_failed">>
                       [] present /\ ~ralph_in.passes /\ ~below  -> <<FALSE, "max_last">>
        IN  <<ralph_ret.cont, ralph_ret.reason>> = want

Accepted ==
    ralph_in.tag \in {"match", "other"} /\ ralph_in.passes

\* C7: with Ralph enabled and max_iterations = N >= 1, a stage none of whose
\* outputs carries a promise invokes the agent exactly N times and fails
\* with ralph_iterations = N, and execute_task leaves the task in todo with
\* failure_stage = the stage's name and ralph_iterations = N in its metadata.
C7_ExactlyNIterations ==
    (/\ ralph_config.enabled /\ ralph_enabled
     /\ ralph_n >= 1 /\ ~promised
     /\ pc \in {"stage_done", "returned"}) =>
        /\ calls = ralph_n
        /\ ~result.success
        /\ result.ralph_iterations = ralph_n
        /\ pc = "returned" =>
                /\ db_task.status = "todo"
                /\ db_task.metadata.failure_stage = Pipeline[stage].name
                /\ db_task.metadata.ralph_iterations = ralph_n

\* The case of C7 the code keeps: the stage runs under a Ralph loop (the task
\* has a completion spec) and no output yields a verified promise.
C7_RalphDrivenStage ==
    (/\ mode = "ralph" /\ ralph_n >= 1 /\ ~Accepted
     /\ pc \in {"stage_done", "returned"}) =>
        /\ calls = ralph_n
        /\ ~result.success
        /\ result.ralph_iterations = ralph_n
        /\ pc = "returned" =>
                /\ db_task.status = "todo"
                /\ db_task.metadata.failure_stage = Pipeline[stage].name
                /\ db_task.metadata.ralph_iterations = ralph_n

\* C8, the state part: while a Ralph stage is looping no call has seen an
\* accepted promise, and the call that sees one ends the stage as verified
\* with as many iterations and agent invocations as that call's iteration.
C8_StopsWhenVerified ==
    /\ (mode = "ralph" /\ pc = "stage_loop") => ~Accepted
    /\ (mode = "ralph" /\ pc = "stage_done" /\ Accepted) =>
            /\ ~ralph_ret.cont /\ ralph_ret.reason = "verified"
            /\ result.success /\ result.ralph_verified
            /\ result.iteration = ralph_in.iteration
            /\ result.ralph_iterations = ralph_in.iteration
            /\ calls = ralph_in.iteration

\* C8, the step part: from a verified Ralph stage the pipeline enters the
\* next stage, or returns True after the last one.
C8_Proceeds ==
    (mode = "ralph" /\ pc = "stage_done" /\ Accepted) =>
        IF stage < Len(Pipeline)
        THEN pc' = "stage_entry" /\ stage' = stage + 1 /\ calls' = calls
        ELSE pc' = "returned" /\ ret' = "true" /\ calls' = calls

\* C8: a Ralph-driven stage stops at the first iteration whose output carries
\* a promise the verifier accepts: should_continue says stop (verified), the
\* agent is not invoked again in that stage, finish() reports success with
\* that iteration number, and the pipeline proceeds to the next stage.
C8_FirstVerifiedStops ==
    []C8_StopsWhenVerified /\ [][C8_Proceeds]_vars

\* C8 witness: a stage verified on its second iteration.
C8_Witness ==
    /\ mode = "ralph" /\ pc = "stage_done" /\ Accepted
    /\ ralph_in.iteration = 2 /\ calls = 2 /\ result.success

\* C9: the agent row registered at stage entry is deregistered however the
\* stage ends: once execute_task has ended no registration of the task
\* remains, and registrations and deregistrations are equal in number.
C9_AlwaysDeregistered ==
    pc \in {"returned", "raised"} =>
        /\ agents = 0
        /\ reg_calls = dereg_calls

\* C10: the agent iterations of one execute_task run, summed over its stages,
\* never exceed max_total_iterations (10), under Ralph loops as well as in
\* the traditional mode.
C10_TotalIterationsCapped ==
    /\ run_calls <= max_total_iterations
    /\ task.iteration <= max_total_iterations

\* C11: whenever a task transitions to done, every task listed in its
\* dependencies is already done, however cmd_execute selected the task (the
\* ready tasks of a spec, all ready tasks, or a task named by id).
C11_DoneAfterDependencies ==
    [][\A t \in BatchTasks :
          (store[t].status # "done" /\ store'[t].status = "done") =>
              \A d \in dependencies[t] : store'[d].status = "done"]_vars

\* C12: in every state of the batch flow (create worktree, run pipeline,
\* finish) the worktree of a task exists on disk if and only if the task's
\* status is one of implementing, reviewing, testing.
C12_WorktreeIffInProgress ==
    \A t \in BatchTasks :
        (t \in worktrees) <=>
            (store[t].status \in {"implementing", "reviewing", "testing"})

\* C13: merge_task tries tier 1, tier 2, tier 3 strictly in that order, a
\* tier is invoked only after every earlier tier failed, and the first tier
\* that succeeds ends the call with success: after a tier-1 success tiers 2
\* and 3 are never invoked.
C13_TiersInOrder ==
    \A w \in MergeWorkers :
        LET wk == worker[w] IN
        /\ wk.invoked = [k \in 1..Len(wk.invoked) |-> k]
        /\ Len(wk.invoked) <= 3
        /\ Len(wk.results) <= Len(wk.invoked)
        /\ Len(wk.results) >= Len(wk.invoked) - 1
        /\ \A k \in 1..Len(wk.results) :
              wk.results[k] =>
                  /\ k = Len(wk.invoked)
                  /\ wk.pc = "done" /\ wk.ret = "true"
        /\ wk.ret = "true" =>
              wk.results # <<>> /\ wk.results[Len(wk.results)]
        /\ (wk.ret = "false" /\ wk.invoked # <<>>) =>
              wk.results = <<FALSE, FALSE, FALSE>>
        /\ wk.t1 = "success" => wk.invoked = <<1>> /\ wk.ret = "true"

\* C13 witness: tier 1 merged cleanly and merge_task returned success with
\* no other tier invoked.
C13_Witness ==
    /\ worker["w1"].pc = "done" /\ worker["w1"].ret = "true"
    /\ worker["w1"].t1 = "success"
    /\ worker["w1"].invoked = <<1>>
    /\ repo.commits = worker["w1"].base + 1

\* C14: when the tier-1 native merge ends in Error (a failure that is not a
\* conflict) the merge engine returns failure without attempting tier 2 or
\* tier 3; only a Conflicted tier 1 descends to tier 2.
C14_ErrorStopsAtTier1 ==
    \A w \in MergeWorkers :
        Len(worker[w].invoked) >= 2 => worker[w].t1 = "conflict"

\* a strategy of worker w has just returned failure
StrategyFailed(w) ==
    LET wk == worker[w] IN
    /\ wk.results # <<>>
    /\ ~wk.results[Len(wk.results)]
    /\ \/ wk.pc = "checkout"
       \/ wk.pc = "done" /\ wk.ret = "false"

\* C15: every merge strategy is all-or-nothing: whenever a tier returns
\* failure no merge is left in progress and the trunk working copy is in its
\* pre-merge state (no written or staged resolution file, no merge commit).
C15_AllOrNothing ==
    StrategyFailed("w1") =>
        /\ ~repo.merge_head
        /\ repo.conflicts = {} /\ repo.written = {} /\ repo.staged = {}
        /\ repo.commits = worker["w1"].base

\* C16: merges into trunk are mutually exclusive: at most one merge_task
\* call is between its first and its last git operation at any time.
C16_OneMergeAtATime ==
    Cardinality({w \in MergeWorkers : worker[w].pc \notin {"idle", "done"}}) <= 1

\* instance i is inside execute_task for task t
Executing(i, t) ==
    /\ inst[i].pc \in {"stage_entry", "stage_body", "stage_done"}
    /\ inst[i].task.id = t

\* C17: no task is double-assigned: of two cmd_execute instances running
\* over the same store at most one has started the pipeline (and created
\* the worktree) for a given task at any time.
C17_NoDoubleAssignment ==
    \A t \in BatchTasks :
        Cardinality({i \in Instances : Executing(i, t)}) <= 1

\* C18: the pipeline never restarts a stage that has reported success: once
\* a stage of a task has succeeded the agent is not invoked for that stage
\* again, within one execute_task run or in a later run of the task.
C18_NoStageRestart ==
    restarted = {}

\* C19: a task's stored iteration counter is monotone nondecreasing until
\* the task is done: no update writes a smaller value than the stored one.
C19_IterationMonotone ==
    [][\A t \in BatchTasks :
          store[t].status # "done" =>
              store'[t].iteration >= store[t].iteration]_vars

\* C20: running a task that is already done is idempotent: the task never
\* leaves done and no worktree is created for it.
C20_DoneStaysDone ==
    [][/\ \A t \in BatchTasks :
              store[t].status = "done" => store'[t].status = "done"
       /\ \A i \in Instances :
              (inst[i].pc = "loop" /\ inst'[i].pc = "stage_entry") =>
                  store[inst'[i].task.id].status # "done"]_vars

\* C21: with Ralph enabled, a task that has no CompletionSpec is still driven
\* through a Ralph loop in every stage (with criteria built from the role
\* defaults), so no stage of it succeeds without an output that carries a
\* promise tag.
C21_NoSpecStillRalph ==
    (/\ ralph_config.enabled /\ ralph_enabled /\ ~has_spec
     /\ pc = "stage_done" /\ result.success) =>
        /\ mode = "ralph"
        /\ promised

\* C22: with Ralph enabled, the Ralph iterations run in a stage of the
\* default pipeline never exceed the stage's declared maximum: 3 for
\* Implementation, 2 for Code Review, 2 for Testing, 10 for QA Validation.
C22_StageMaxIterations ==
    (mode = "ralph" /\ pc \in {"stage_loop", "stage_done"}) =>
        /\ ralph.active => ralph.iteration <= Pipeline[stage].max_iterations
        /\ pc = "stage_done" =>
              result.ralph_iterations <= Pipeline[stage].max_iterations
        /\ calls <= Pipeline[stage].max_iterations

\* C23: within a Ralph loop an iteration whose agent invocation reports an
\* error (timeout, process not found, nonzero exit, framing error) is a
\* failed iteration: it never completes the stage as verified, and the loop
\* goes on while the budget lasts.
C23_ErrorIterationFails ==
    (mode = "ralph" /\ last_cli = "error" /\ pc = "stage_done") =>
        /\ ~result.ralph_verified /\ ~result.success
        /\ ralph_n >= 1 => calls = ralph_n

\* C24: with Ralph disabled an agent invocation that reports an error is a
\* stage failure: the stage does not succeed on that invocation and the task
\* is failed for that stage.
C24_ErrorFailsStage ==
    /\ (/\ ~ralph_enabled /\ mode = "traditional" /\ last_cli = "error"
        /\ pc = "stage_done") =>
            ~result.success
    /\ (/\ ~ralph_enabled /\ last_cli = "error" /\ pc = "returned") =>
            /\ ret = "false"
            /\ db_task.status = "todo"
            /\ db_task.metadata.failure_stage = Pipeline[stage].name

\* C25: after every agent iteration of every stage, in Ralph mode as in the
\* traditional mode, the memory-extraction sink has been invoked exactly
\* once for that iteration.
C25_MemoryPerIteration ==
    pc \in {"stage_loop", "stage_done"} => mem_calls = calls

\* C26: the last execution-log entry appended for a stage has success = true
\* when the stage succeeded and success = false when it failed, in Ralph
\* mode and in the traditional mode.
C26_LastLogMatchesStage ==
    /\ (/\ pc = "stage_done"
        /\ (mode = "traditional" \/ result.ralph_verified)
        /\ calls > 0) =>
            /\ last_log.stage = Pipeline[stage].name
            /\ last_log.success = result.success
    /\ (/\ pc \in {"stage_entry", "returned"}
        /\ last_log.kind = "ralph_final") =>
            last_log.success = result.success

\* some slot of the pool is idle
SomeSlotIdle ==
    \E k \in DOMAIN slots : slots[k].status = "idle"

\* the step is a call of the pool method named op
PoolCall(op) ==
    /\ pool_ret'[1] = op
    /\ poolVars' # poolVars

\* C27, a call of assign_task: with an idle slot it returns a slot that was
\* idle and is now running and holds the task; with none it returns None
\* and changes no slot.  The queue is untouched either way.
C27_AssignStep ==
    PoolCall("assign_task") =>
        /\ task_queue' = task_queue
        /\ Len(slots') = Len(slots)
        /\ IF SomeSlotIdle
           THEN LET k == pool_ret'[2] IN
                /\ k \in DOMAIN slots
                /\ slots[k].status = "idle"
                /\ slots'[k].status = "running"
                /\ slots'[k].task_id = last_event'[2]
                /\ slots'[k].task_id \in TaskIds
                /\ \A j \in DOMAIN slots : j # k => slots'[j] = slots[j]
           ELSE /\ pool_ret'[2] = 0
                /\ slots' = slots

\* C27, the queue of a pool with no idle slot: queue_task still appends and
\* dequeue_task still returns a queued task.
C27_QueueStep ==
    ~SomeSlotIdle =>
        /\ PoolCall("queue_task") =>
              /\ Len(task_queue') = Len(task_queue) + 1
              /\ task_queue'[Len(task_queue')] \in TaskIds
        /\ (PoolCall("dequeue_task") /\ task_queue # <<>>) =>
              /\ pool_ret'[2] \in TaskIds
              /\ Len(task_queue') = Len(task_queue) - 1

\* C27: assign_task returns a slot, now running and holding the task,
\* exactly when some slot is idle; with no idle slot (all running, or
\* capacity 0) it returns null and leaves the slots and the queue unchanged,
\* while queue_task and dequeue_task keep working.
C27_AssignOrNull ==
    [][C27_AssignStep /\ C27_QueueStep]_vars

\* C27 witness: every slot of a non-empty pool is running, assign_task has
\* returned null, and a task is queued.
C27_Witness ==
    /\ max_agents >= 1
    /\ ~SomeSlotIdle
    /\ pool_ret = <<"assign_task", 0>>
    /\ task_queue # <<>>

\* C28: complete_task / fail_task frees the slot holding the task and is an
\* idempotent no-op for a task that holds no slot: after a release no slot
\* holds the task, so a second release changes nothing.
C28_ReleaseIdempotent ==
    [][(/\ pool_ret'[1] \in {"complete_task", "fail_task"}
        /\ slots' # slots) =>
            \A k \in DOMAIN slots' : slots'[k].task_id # last_event'[2]]_vars

\* the oldest of the pending tasks of highest priority
FirstHighest(q) ==
    q[CHOOSE k \in DOMAIN q :
        /\ \A j \in DOMAIN q : Priority[q[j]] <= Priority[q[k]]
        /\ \A j \in DOMAIN q : j < k => Priority[q[j]] < Priority[q[k]]]

\* the number of entries of q equal to t
Count(q, t) ==
    Cardinality({k \in DOMAIN q : q[k] = t})

\* C29, a call of dequeue_task: it returns and removes the queued task of
\* highest priority, the oldest of them on a tie, and None from an empty
\* queue; every other queued task stays queued.
C29_DequeueStep ==
    PoolCall("dequeue_task") =>
        IF pending = <<>>
        THEN pool_ret'[2] = None /\ task_queue' = task_queue
        ELSE /\ pool_ret'[2] = FirstHighest(pending)
             /\ Len(task_queue') = Len(task_queue) - 1
             /\ \A t \in TaskIds :
                   Count(task_queue', t) =
                       Count(task_queue, t) - (IF t = pool_ret'[2] THEN 1 ELSE 0)

\* C29, the queue between the calls: it holds exactly the tasks queued and
\* not yet dequeued.
C29_QueueIsPending ==
    /\ Len(task_queue) = Len(pending)
    /\ \A t \in TaskIds : Count(task_queue, t) = Count(pending, t)

\* C29: after any sequence of queue_task and dequeue_task calls dequeue_task
\* returns and removes the queued task of highest priority, ties broken by
\* insertion order, and None on an empty queue; every queued task is
\* dequeued exactly once.
C29_HighestPriorityFirst ==
    []C29_QueueIsPending /\ [][C29_DequeueStep]_vars

\* C29 witness: of two queued tasks of equal priority the older one has been
\* dequeued and the younger one is still queued.
C29_Witness ==
    /\ pool_ret = <<"dequeue_task", "T2">>
    /\ pending = <<"T3">>
    /\ task_queue = <<"T3">>

\* C30: an exception raised by a status callback is swallowed: it does not
\* leave assign_task / complete_task / fail_task, the slot transition takes
\* place, and every registered callback is called, in order, with the
\* (slot_id, task_id, event) of the transition.
C30_CallbackErrorsSwallowed ==
    notified.active =>
        /\ ~notified.propagated
        /\ notified.calls = [k \in 1..status_callbacks |-> k]
        /\ last_event[1] \in DOMAIN slots
        /\ IF last_event[3] = "assigned"
           THEN /\ pool_ret = <<"assign_task", last_event[1]>>
                /\ slots[last_event[1]].status = "running"
                /\ slots[last_event[1]].task_id = last_event[2]
           ELSE /\ pool_ret[1] \in {"complete_task", "fail_task"}
                /\ last_event[3] =
                      (IF pool_ret[1] = "complete_task" THEN "completed"
                       ELSE "failed")
                /\ slots[last_event[1]] = AgentSlot(last_event[1])

\* C30 witness: one of two callbacks raised while a completed task was
\* reported, both were called and the slot is idle again.
C30_Witness ==
    /\ notified.active /\ notified.raised
    /\ status_callbacks = 2
    /\ notified.calls = <<1, 2>>
    /\ pool_ret[1] = "complete_task"
    /\ slots[last_event[1]].status = "idle"

\* C31: should_continue called on a started loop that is still at iteration
\* 0 (no increment yet) raises an error and records no verification result.
C31_ShouldContinueAtZeroRaises ==
    (ralph_ret.op = "should_continue" /\ ralph.active /\ ralph.iteration = 0) =>
        /\ ralph_ret.err # None
        /\ ralph.results = <<>>

\* C38: under the string_match method a loop stops as verified only when
\* the text extracted from the promise tag is the criteria's promise; a tag
\* holding any other text never stops the loop as verified.
C38_VerifiedOnlyOnMatchingTag ==
    (/\ ralph_ret.op = "should_continue"
     /\ ralph.active
     /\ ralph.iteration >= 1
     /\ ralph.method = "string_match"
     /\ ralph_ret.reason = "verified") => ralph_in.tag = "match"

RalphCall(op) ==
    ralph_ret'.op = op /\ ralphVars' # ralphVars

\* C37 (state part): a loop built with a disabled configuration is never
\* active.
C37_DisabledNeverActive ==
    ~ralph_config.enabled => ~ralph.active

\* C37 (step part): start on a disabled configuration raises ValueError and
\* leaves the loop as it was, otherwise it activates it; increment,
\* should_continue, finish and build_prompt_section return normally on an
\* active loop and raise RuntimeError on an inactive one, which they leave
\* inactive; of the four only finish deactivates.
C37_Step ==
    /\ RalphCall("start") =>
          IF ~ralph_config.enabled
          THEN ralph_ret'.err = "ValueError" /\ ralph' = ralph
          ELSE ralph_ret'.err = None /\ ralph'.active
    /\ \A op \in {"increment", "should_continue", "finish",
                  "build_prompt_section"} :
          RalphCall(op) =>
             IF ralph.active
             THEN /\ ralph_ret'.err = None
                  /\ ralph'.active <=> op # "finish"
             ELSE /\ ralph_ret'.err = "RuntimeError"
                  /\ ralph' = ralph

\* C37: RalphLoop accepts increment, should_continue, finish and
\* build_prompt_section only while a loop is active: each raises on an
\* inactive loop and leaves it inactive; start fails on a disabled
\* configuration and leaves the loop inactive; finish deactivates the loop,
\* so a second finish raises.
C37_OnlyWhileActive ==
    []C37_DisabledNeverActive /\ [][C37_Step]_vars

\* C37 witness: a loop that was active (it answered should_continue at
\* iteration >= 1) has been finished, and a further finish raised.
C37_Witness ==
    /\ ralph_config.enabled
    /\ ralph_in.iteration >= 1
    /\ ~ralph.active
    /\ ralph_ret = RalphReturn("finish", FALSE, None, "RuntimeError")

\* C39: whenever execute_task returns, the persisted status of the task is
\* done exactly when it returned True and todo exactly when it returned
\* False; it never returns leaving the task in implementing, reviewing or
\* testing.
C39_ReturnMatchesStatus ==
    pc = "returned" =>
        /\ ret \in {"true", "false"}
        /\ ret = "true" <=> db_task.status = "done"
        /\ ret = "false" <=> db_task.status = "todo"

\* C39 witness: a run without Ralph loops went through every stage, returned
\* True and left the stored task done.
C39_Witness ==
    /\ pc = "returned" /\ ret = "true"
    /\ mode = "traditional"
    /\ stage = Len(Pipeline)
    /\ db_task.status = "done"

\* C36: tier 2 commits only if every conflicted file was resolved and
\* staged; when any file failed, the whole merge is aborted (no merge in
\* progress, no commit, no resolved file left written or staged) and the
\* engine proceeds to tier 3.
C36_Tier2AllFilesOrAbort ==
    LET wk == worker["w1"] IN
    /\ (Len(wk.results) = 2 /\ wk.results[2]) => ~wk.failed
    /\ (Len(wk.results) = 2 /\ ~wk.results[2]) => wk.invoked = <<1, 2, 3>>
    /\ (wk.tier = 3 /\ wk.pc = "checkout" /\ wk.failed) =>
            /\ ~repo.merge_head
            /\ repo.written = {} /\ repo.staged = {}
            /\ repo.commits = wk.base

\* C40: the failure metadata of a task describes only its latest run: a task
\* that is done carries no failure_stage, failure_reason or ralph_iterations
\* left over from an earlier, failed run.
C40_DoneHasNoFailureMetadata ==
    \A t \in BatchTasks :
        store[t].status = "done" => store[t].metadata = NoMetadata

\* C35: with Ralph loops disabled the legacy markers in the agent's output
\* decide an invocation's outcome: an output with a failure marker and no
\* success marker is not successful, an output with a success marker is
\* successful.
C35_LegacyMarkersDecide ==
    (~ralph_enabled /\ last_log.kind = "traditional") =>
        /\ (last_out.fail /\ ~last_out.succ) => ~last_log.success
        /\ last_out.succ => last_log.success

\* C32: batch execute returns exit code 0 if and only if every task it
\* executed succeeded (no ready task included), and 1 if any task failed or
\* the request was unusable: the named task does not exist, the directory is
\* not a project, or a task could not be run to its end.
C32_ExitCode ==
    cmd.pc = "exited" =>
        /\ cmd.exit_code \in {0, 1}
        /\ cmd.exit_code = 0 <=>
              /\ cmd.error = None
              /\ Len(cmd.results) = cmd.tasks
              /\ FALSE \notin {cmd.results[k] : k \in DOMAIN cmd.results}
        /\ cmd.error \in {"task_not_found", "not_a_project"} =>
              cmd.exit_code = 1 /\ cmd.results = <<>>

\* C32 witness: a command ran several tasks to their end, one succeeded and
\* a later one failed, and the exit code is 1.
C32_Witness ==
    /\ cmd.pc = "exited" /\ cmd.error = None
    /\ cmd.tasks >= 2 /\ Len(cmd.results) = cmd.tasks
    /\ cmd.results[1] /\ ~cmd.results[cmd.tasks]
    /\ cmd.exit_code = 1

\* what C34 takes a stage to contribute: it passed only if its method is
\* one a stage can be verified with and its verifier said so
StagePassedAsClaimed(st) ==
    st.method \in {"string_match", "semantic", "external"} /\ st.verdict

\* C34: multi_stage verification passes if and only if every required stage
\* passed, where a stage with an unknown or unsupported method (a nested
\* multi_stage included) counts as failed; a failed optional stage never
\* fails the whole.
C34_MultiStage ==
    ms_ret # None =>
        (ms_ret = "true" <=>
            \A k \in DOMAIN ms_in.stages :
                ms_in.stages[k].required => StagePassedAsClaimed(ms_in.stages[k]))

\* the task's worktree existed when the call was made
TreeExisted ==
    wt_ret.before.dir # "absent" /\ wt_ret.before.registered

\* C33 (result): whenever create_worktree returns, it returns the task's
\* path, the tree there is fresh (no file of an earlier instance) and the
\* branch task/<id> is new, at the base branch.
C33_ReturnsFreshTree ==
    (wt_ret.op = "create" /\ wt_ret.outcome = "ok") =>
        /\ wt_ret.path = worktree_path(wt_ret.task)
        /\ wt[wt_ret.task] = FreshTree

\* C33 (success): called for a task whose worktree already exists, with the
\* base branch present and git carrying out its commands, create_worktree
\* returns.
C33_SucceedsOnExisting ==
    (/\ wt_ret.op = "create" /\ TreeExisted
     /\ wt_ret.base_exists /\ wt_ret.git_ok) => wt_ret.outcome = "ok"

====
